---- MODULE Spec2Model ----
(***************************************************************************)
(* A model of git-review's diff review engine: the unified diff parser     *)
(* (src/git/diff_parser.rs), the side-by-side alignment engine             *)
(* (src/ui/side_by_side.rs), the row walks of the application state        *)
(* (src/app/view.rs, src/app/search.rs) and the comment store              *)
(* (src/app/comments.rs, src/git/notes.rs, src/comments.rs).               *)
(*                                                                         *)
(* Strings are sequences of characters; a character is a one-letter TLA+   *)
(* string, except the two non-ASCII characters "E2" and "E2U", which stand *)
(* for a lower-case and an upper-case letter whose UTF-8 encoding is two   *)
(* bytes long (such as U+00E9 and U+00C9).  Option<T> is a sequence of     *)
(* length at most one: None is <<>> and Some(x) is <<x>>.                  *)
(***************************************************************************)
EXTENDS Integers, Sequences, FiniteSets, TLC

VARIABLES
    p_input,    \* parse_diff: the lines of diff_text consumed so far
    p_state,    \* parse_diff: files, current_file, current_hunk, old/new_line_num
    p_pc,       \* parse_diff: "scan" inside the for loop, "done" after the return
    p_files,    \* parse_diff: the returned Vec<FileDiff>
    sbs_file,   \* create_side_by_side_lines: app.selected_file()
    sbs_w,      \* create_side_by_side_lines: skip, limit, max_width, horizontal_offset
    sbs_out,    \* create_side_by_side_lines: (left_lines, right_lines), or a panic
    app_pc,                 \* main: "new", "loaded", "running", or "panicked"
    selected_commit_index,  \* App.selected_commit_index
    selected_file_index,    \* App.selected_file_index
    scroll_offset,          \* App.scroll_offset
    horizontal_scroll,      \* App.horizontal_scroll
    cursor_line,            \* App.cursor_line
    terminal_width,         \* App.terminal_width
    terminal_height,        \* App.terminal_height
    current_files,          \* App.current_files
    current_context_lines,  \* App.current_context_lines
    comment_mode,           \* App.comment_mode
    comment_draft,          \* App.comment_draft
    comments_by_commit,     \* App.comments_by_commit: commit id -> Option<CommitComments>
    status_message,         \* App.status_message
    search_mode,            \* App.search_mode
    search_query,           \* App.search_query
    search_matches,         \* App.search_matches
    current_match_index,    \* App.current_match_index
    notes,                  \* the notes ref of the current branch: commit id -> Option<JSON>
    last_call,              \* the App method called last and what it returned
    fn_call,                \* a call of a free function: its name, argument and result
    repo_notes              \* the notes refs written through git/notes.rs with an explicit
                            \* branch: ref name -> commit id -> Option<JSON>

parseVars == <<p_input, p_state, p_pc, p_files>>

sbsVars == <<sbs_file, sbs_w, sbs_out>>

viewVars == <<selected_commit_index, selected_file_index, scroll_offset, horizontal_scroll,
              cursor_line, terminal_width, terminal_height, current_files,
              current_context_lines>>

commentVars == <<comment_mode, comment_draft, comments_by_commit, notes>>

searchVars == <<search_mode, search_query, search_matches, current_match_index>>

appVars == <<app_pc, viewVars, commentVars, searchVars, status_message, last_call>>

vars == <<p_input, p_state, p_pc, p_files, sbs_file, sbs_w, sbs_out, app_pc,
          selected_commit_index, selected_file_index, scroll_offset, horizontal_scroll,
          cursor_line, terminal_width, terminal_height, current_files,
          current_context_lines, comment_mode, comment_draft, comments_by_commit,
          status_message, search_mode, search_query, search_matches, current_match_index,
          notes, last_call, fn_call, repo_notes>>

-----------------------------------------------------------------------------
(* Option<T> *)

None == <<>>

Some(x) == <<x>>

IsSome(o) == Len(o) = 1

Unwrap(o) == o[1]

UnwrapOr(o, d) == IF IsSome(o) THEN o[1] ELSE d

Min(a, b) == IF a < b THEN a ELSE b

Max(a, b) == IF a > b THEN a ELSE b

SaturatingSub(a, b) == IF a > b THEN a - b ELSE 0

-----------------------------------------------------------------------------
(* str helpers of the Rust standard library, on sequences of characters *)

StartsWith(s, p) == Len(s) >= Len(p) /\ SubSeq(s, 1, Len(p)) = p

EndsWith(s, p) == Len(s) >= Len(p) /\ SubSeq(s, Len(s) - Len(p) + 1, Len(s)) = p

Drop(s, n) == SubSeq(s, n + 1, Len(s))

RECURSIVE TrimStartMatches(_, _)
TrimStartMatches(s, p) ==
    IF Len(p) > 0 /\ StartsWith(s, p) THEN TrimStartMatches(Drop(s, Len(p)), p) ELSE s

RECURSIVE TrimEndMatches(_, _)
TrimEndMatches(s, p) ==
    IF Len(p) > 0 /\ EndsWith(s, p)
    THEN TrimEndMatches(SubSeq(s, 1, Len(s) - Len(p)), p)
    ELSE s

Whitespace == {" ", "\t"}

RECURSIVE TrimStart(_)
TrimStart(s) == IF Len(s) > 0 /\ s[1] \in Whitespace THEN TrimStart(Tail(s)) ELSE s

RECURSIVE TrimEnd(_)
TrimEnd(s) ==
    IF Len(s) > 0 /\ s[Len(s)] \in Whitespace THEN TrimEnd(SubSeq(s, 1, Len(s) - 1)) ELSE s

Trim(s) == TrimEnd(TrimStart(s))

\* index of the first occurrence of character c in s, 0 when there is none
IndexOf(s, c, i) ==
    IF \E k \in i..Len(s) : s[k] = c
    THEN CHOOSE k \in i..Len(s) : s[k] = c /\ \A j \in i..(k - 1) : s[j] # c
    ELSE 0

\* str::split_once(c): Some(<<before, after>>) at the first c, else None
SplitOnce(s, c) ==
    LET i == IndexOf(s, c, 1)
    IN  IF i = 0 THEN None ELSE Some(<<SubSeq(s, 1, i - 1), Drop(s, i)>>)

\* str::split(c).collect(): always at least one part
RECURSIVE Split(_, _)
Split(s, c) ==
    LET i == IndexOf(s, c, 1)
    IN  IF i = 0 THEN <<s>> ELSE <<SubSeq(s, 1, i - 1)>> \o Split(Drop(s, i), c)

DigitChars == <<"0", "1", "2", "3", "4", "5", "6", "7", "8", "9">>

IsDigit(c) == \E d \in 1..10 : DigitChars[d] = c

DigitVal(c) == (CHOOSE d \in 1..10 : DigitChars[d] = c) - 1

RECURSIVE DigitsValue(_, _)
DigitsValue(s, acc) ==
    IF Len(s) = 0 THEN acc ELSE DigitsValue(Tail(s), acc * 10 + DigitVal(Head(s)))

\* str::parse::<usize>().ok(): an optional '+' sign, then at least one digit
ParseUsize(s) ==
    LET body == IF Len(s) > 0 /\ s[1] = "+" THEN Tail(s) ELSE s
    IN  IF Len(body) > 0 /\ \A i \in 1..Len(body) : IsDigit(body[i])
        THEN Some(DigitsValue(body, 0))
        ELSE None

\* format!("{n}")
RECURSIVE Digits(_)
Digits(n) == IF n < 10 THEN <<DigitChars[n + 1]>> ELSE Digits(n \div 10) \o <<DigitChars[(n % 10) + 1]>>

-----------------------------------------------------------------------------
(* src/git/diff_parser.rs *)

DIFF_GIT == <<"d", "i", "f", "f", " ", "-", "-", "g", "i", "t">>

OLD_PREFIX == <<"-", "-", "-", " ">>

NEW_PREFIX == <<"+", "+", "+", " ">>

AT_AT == <<"@", "@">>

NewFileDiff == [old_path |-> <<>>, new_path |-> <<>>, hunks |-> <<>>, new_file_lines |-> None]

\* Hunk::available_lines_above
AvailableLinesAbove(hunk) ==
    Min(SaturatingSub(hunk.old_start, 1), SaturatingSub(hunk.new_start, 1))

\* Hunk::can_expand_below
CanExpandBelow(hunk, file_lines) == hunk.new_start + hunk.new_lines < file_lines

\* the `diff --git` branch: flush the previous file (pushing its open hunk first)
StepDiffGit(st) ==
    IF IsSome(st.current_file)
    THEN LET file == Unwrap(st.current_file)
             flushed == IF IsSome(st.current_hunk)
                        THEN [file EXCEPT !.hunks = Append(@, Unwrap(st.current_hunk))]
                        ELSE file
         IN  [st EXCEPT !.files = Append(@, flushed),
                        !.current_file = Some(NewFileDiff),
                        !.current_hunk = None]
    ELSE [st EXCEPT !.current_file = Some(NewFileDiff)]

StripPathPrefix(path, prefix) == IF StartsWith(path, prefix) THEN Drop(path, 2) ELSE path

\* the `--- ` branch
StepOldPath(st, line) ==
    IF IsSome(st.current_file)
    THEN [st EXCEPT !.current_file =
            Some([Unwrap(st.current_file) EXCEPT
                    !.old_path = StripPathPrefix(Drop(line, 4), <<"a", "/">>)])]
    ELSE st

\* the `+++ ` branch
StepNewPath(st, line) ==
    IF IsSome(st.current_file)
    THEN [st EXCEPT !.current_file =
            Some([Unwrap(st.current_file) EXCEPT
                    !.new_path = StripPathPrefix(Drop(line, 4), <<"b", "/">>)])]
    ELSE st

\* the header fields of an `@@` line: None when the body has no space separator
ParseHunkHeader(line) ==
    LET hunk_info == Trim(TrimEndMatches(TrimStartMatches(line, AT_AT), AT_AT))
        halves == SplitOnce(hunk_info, " ")
    IN  IF ~IsSome(halves) THEN None
        ELSE LET old_parts == Split(TrimStartMatches(Unwrap(halves)[1], <<"-">>), ",")
                 new_parts == Split(TrimStartMatches(Unwrap(halves)[2], <<"+">>), ",")
                 second(parts) == IF Len(parts) >= 2 THEN ParseUsize(parts[2]) ELSE None
             IN  Some([old_start |-> UnwrapOr(ParseUsize(old_parts[1]), 0),
                       old_lines |-> UnwrapOr(second(old_parts), 1),
                       new_start |-> UnwrapOr(ParseUsize(new_parts[1]), 0),
                       new_lines |-> UnwrapOr(second(new_parts), 1)])

\* the `@@` branch: flush the open hunk into the current file, then start a hunk
StepHunkHeader(st, line) ==
    LET pushed == IF IsSome(st.current_file) /\ IsSome(st.current_hunk)
                  THEN [st EXCEPT
                          !.current_file = Some([Unwrap(st.current_file) EXCEPT
                                !.hunks = Append(@, Unwrap(st.current_hunk))]),
                          !.current_hunk = None]
                  ELSE st
        hdr == ParseHunkHeader(line)
    IN  IF IsSome(hdr)
        THEN [pushed EXCEPT
                !.old_line_num = Unwrap(hdr).old_start,
                !.new_line_num = Unwrap(hdr).new_start,
                !.current_hunk = Some([old_start |-> Unwrap(hdr).old_start,
                                       old_lines |-> Unwrap(hdr).old_lines,
                                       new_start |-> Unwrap(hdr).new_start,
                                       new_lines |-> Unwrap(hdr).new_lines,
                                       header |-> line,
                                       lines |-> <<>>])]
        ELSE pushed

LineTypeOf(c) == IF c = "+" THEN "Added" ELSE IF c = "-" THEN "Removed" ELSE "Context"

\* a variant of StepContent in which a removed line advances the new-side
\* counter as well
StepContent_RemovedAdvancesNew(st, line) ==
    IF Len(line) = 0 \/ line[1] \notin {"+", "-", " "} THEN st
    ELSE LET line_type == LineTypeOf(line[1])
             hunk_line == [line_type |-> line_type,
                           old_line_num |-> IF line_type = "Added" THEN None
                                            ELSE Some(st.old_line_num),
                           new_line_num |-> IF line_type = "Removed" THEN None
                                            ELSE Some(st.new_line_num),
                           content |-> Tail(line)]
         IN  [st EXCEPT
                !.old_line_num = IF line_type = "Added" THEN @ ELSE @ + 1,
                !.new_line_num = @ + 1,
                !.current_hunk = Some([Unwrap(st.current_hunk) EXCEPT
                                          !.lines = Append(@, hunk_line)])]

\* the content-line branch, taken only while a hunk is open
StepContent(st, line) ==
    IF Len(line) = 0 \/ line[1] \notin {"+", "-", " "} THEN st
    ELSE LET line_type == LineTypeOf(line[1])
             hunk_line == [line_type |-> line_type,
                           old_line_num |-> IF line_type = "Added" THEN None
                                            ELSE Some(st.old_line_num),
                           new_line_num |-> IF line_type = "Removed" THEN None
                                            ELSE Some(st.new_line_num),
                           content |-> Tail(line)]
         IN  [st EXCEPT
                !.old_line_num = IF line_type = "Added" THEN @ ELSE @ + 1,
                !.new_line_num = IF line_type = "Removed" THEN @ ELSE @ + 1,
                !.current_hunk = Some([Unwrap(st.current_hunk) EXCEPT
                                          !.lines = Append(@, hunk_line)])]

\* one iteration of `for line in diff_text.lines()`
ParseLine(st, line) ==
    IF StartsWith(line, DIFF_GIT) THEN StepDiffGit(st)
    ELSE IF StartsWith(line, OLD_PREFIX) THEN StepOldPath(st, line)
    ELSE IF StartsWith(line, NEW_PREFIX) THEN StepNewPath(st, line)
    ELSE IF StartsWith(line, AT_AT) THEN StepHunkHeader(st, line)
    ELSE IF IsSome(st.current_hunk) THEN StepContent(st, line)
    ELSE st

ParserStart ==
    [files |-> <<>>, current_file |-> None, current_hunk |-> None,
     old_line_num |-> 0, new_line_num |-> 0]

\* the code after the loop: save the final file and hunk
ParseFinish(st) ==
    IF IsSome(st.current_file)
    THEN LET file == Unwrap(st.current_file)
             withHunk == IF IsSome(st.current_hunk)
                         THEN [file EXCEPT !.hunks = Append(@, Unwrap(st.current_hunk))]
                         ELSE file
             last == withHunk.hunks[Len(withHunk.hunks)]
             sized == IF Len(withHunk.hunks) > 0
                      THEN [withHunk EXCEPT
                              !.new_file_lines = Some(last.new_start + last.new_lines)]
                      ELSE withHunk
         IN  Append(st.files, sized)
    ELSE st.files

RECURSIVE ParseLines(_, _)
ParseLines(st, text) ==
    IF Len(text) = 0 THEN st ELSE ParseLines(ParseLine(st, Head(text)), Tail(text))

\* parse_diff, on a text given as its sequence of lines
ParseDiff(text) == ParseFinish(ParseLines(ParserStart, text))

-----------------------------------------------------------------------------
(* The parser as a state machine: one step per line of the input text *)

MaxLines == 4

\* format!("@@ -{o},{ol} +{n},{nl} @@{section}"): the hunk header git writes
FormatHeader(o, ol, n, nl, section) ==
    <<"@", "@", " ", "-">> \o Digits(o) \o <<",">> \o Digits(ol) \o <<" ", "+">>
        \o Digits(n) \o <<",">> \o Digits(nl) \o <<" ", "@", "@">> \o section

NoSection == <<>>

FnSection == <<" ", "f", "n">>

\* the (old_start, old_lines, new_start, new_lines, section) of the headers fed in
HeaderShapes ==
    { <<1, 2, 1, 2, NoSection>>, <<1, 2, 1, 2, FnSection>>, <<3, 1, 3, 2, NoSection>> }

HeaderOf(t) == FormatHeader(t[1], t[2], t[3], t[4], t[5])

LnDiffGit ==
    <<"d", "i", "f", "f", " ", "-", "-", "g", "i", "t", " ", "a", "/", "f", " ", "b", "/", "g">>

LnOldPath == <<"-", "-", "-", " ", "a", "/", "f">>

LnNewPath == <<"+", "+", "+", " ", "b", "/", "g">>

LnNoSpaceHeader == <<"@", "@", "-", "1", "+", "1", "@", "@">>

LnContext == <<" ", "a">>

LnRemoved == <<"-", "b">>

LnAdded == <<"+", "c">>

\* the removal of a line whose text is "-- q" (a comment line of SQL or Lua)
LnRemovedDashes == <<"-", "-", "-", " ", "q">>

ParserLines ==
    {LnDiffGit, LnOldPath, LnNewPath, LnNoSpaceHeader,
     LnContext, LnRemoved, LnAdded, LnRemovedDashes}
        \cup {HeaderOf(t) : t \in HeaderShapes}

\* config.display.context_lines as main sets it from --context (default 8)
default_context_lines == 8

\* config.display.context_expand_increment
default_context_expand_increment == 8

\* App.commits: the ids of the commits under review, in log order
Commits == <<"c1", "c2", "c3">>

CommitIds == {Commits[i] : i \in 1..Len(Commits)}

\* parse_diff before its first line
ParserIdle ==
    /\ p_input = <<>>
    /\ p_state = ParserStart
    /\ p_pc = "scan"
    /\ p_files = <<>>

\* no call of create_side_by_side_lines yet
SbsIdle ==
    /\ sbs_w = [skip |-> 0, limit |-> 0, max_width |-> 0, horizontal_offset |-> 0]
    /\ sbs_out = None

\* App::new: the application state before main loads comments and the first diff
AppNew ==
    /\ app_pc = "new"
    /\ selected_commit_index = 0
    /\ selected_file_index = 0
    /\ scroll_offset = 0
    /\ horizontal_scroll = 0
    /\ cursor_line = 0
    /\ terminal_width = 80
    /\ terminal_height = 24
    /\ current_files = <<>>
    /\ current_context_lines = default_context_lines
    /\ comment_mode = [mode |-> "Normal"]
    /\ comment_draft = <<>>
    /\ comments_by_commit = [c \in CommitIds |-> None]
    /\ status_message = None
    /\ search_mode = "Normal"
    /\ search_query = <<>>
    /\ search_matches = <<>>
    /\ current_match_index = None
    /\ last_call = [op |-> "new", arg |-> 0, result |-> "Ok"]

ParseInit ==
    /\ ParserIdle
    /\ SbsIdle
    /\ sbs_file = None
    /\ AppNew
    /\ fn_call = None
    /\ repo_notes = <<>>
    /\ notes = [c \in CommitIds |-> None]

\* the loop body of parse_diff on the next line of the text
ParseStep ==
    /\ p_pc = "scan"
    /\ Len(p_input) < MaxLines
    /\ \E line \in ParserLines :
          /\ p_input' = Append(p_input, line)
          /\ p_state' = ParseLine(p_state, line)
    /\ UNCHANGED <<p_pc, p_files, sbsVars, appVars, fn_call, repo_notes>>

\* end of input: the final flush and the return
ParseReturn ==
    /\ p_pc = "scan"
    /\ p_pc' = "done"
    /\ p_files' = ParseFinish(p_state)
    /\ UNCHANGED <<p_input, p_state, sbsVars, appVars, fn_call, repo_notes>>

NextParse == ParseStep \/ ParseReturn

SpecParse == ParseInit /\ [][NextParse]_vars

-----------------------------------------------------------------------------
(* Reading the consumed input as unified diff text *)

IsMarker(line) == StartsWith(line, AT_AT) \/ StartsWith(line, DIFF_GIT)

IsContentLine(line) == Len(line) > 0 /\ line[1] \in {"+", "-", " "}

\* index of the last `@@` or `diff --git` line of the input, 0 when there is none
LastMarker(input) ==
    LET idx == {i \in 1..Len(input) : IsMarker(input[i])}
    IN  IF idx = {} THEN 0 ELSE CHOOSE i \in idx : \A j \in idx : j <= i

\* the lines that follow the last marker
BodyAfterMarker(input) == Drop(input, LastMarker(input))

\* the last marker is an `@@` header that started a hunk
HunkStarted(input) ==
    /\ LastMarker(input) > 0
    /\ StartsWith(input[LastMarker(input)], AT_AT)
    /\ IsSome(SplitOnce(Trim(TrimEndMatches(TrimStartMatches(input[LastMarker(input)], AT_AT), AT_AT)), " "))

TypedContent(line) == [line_type |-> LineTypeOf(line[1]), content |-> Tail(line)]

RECURSIVE ExpectedHunkLines(_)
ExpectedHunkLines(body) ==
    IF Len(body) = 0 THEN <<>>
    ELSE IF IsContentLine(Head(body))
         THEN <<TypedContent(Head(body))>> \o ExpectedHunkLines(Tail(body))
         ELSE ExpectedHunkLines(Tail(body))

TypesAndContents(lines) ==
    [i \in 1..Len(lines) |-> [line_type |-> lines[i].line_type, content |-> lines[i].content]]

CountTypes(lines, types) == Cardinality({i \in 1..Len(lines) : lines[i].line_type \in types})

\* C1: once an @@ header has started a hunk, every following line (up to the
\* next @@ or diff --git line) that begins with '+', '-' or ' ' is one line of
\* that hunk, typed Added, Removed or Context, with the rest of the line as its
\* content, in input order.
C1_ContentLinesAppended ==
    (p_pc = "scan" /\ HunkStarted(p_input)) =>
        /\ IsSome(p_state.current_hunk)
        /\ TypesAndContents(Unwrap(p_state.current_hunk).lines)
              = ExpectedHunkLines(BodyAfterMarker(p_input))

\* a serialized hunk is well formed for (ol, nl): only content lines, ol of
\* them on the old side and nl of them on the new side (bodies holding a line
\* that reads as a `--- ` or `+++ ` file header are the subject of C1)
WellFormedBody(body, ol, nl) ==
    /\ \A i \in 1..Len(body) :
          /\ IsContentLine(body[i])
          /\ ~StartsWith(body[i], OLD_PREFIX)
          /\ ~StartsWith(body[i], NEW_PREFIX)
    /\ Cardinality({i \in 1..Len(body) : body[i][1] \in {" ", "-"}}) = ol
    /\ Cardinality({i \in 1..Len(body) : body[i][1] \in {" ", "+"}}) = nl

\* C2: parsing the text of a well-formed hunk `@@ -o,ol +n,nl @@`, with or
\* without section text after the closing @@, gives a hunk with old_start = o,
\* old_lines = ol, new_start = n, new_lines = nl whose Context+Removed lines
\* number old_lines and whose Context+Added lines number new_lines.
C2_HunkRoundTrip ==
    \A t \in HeaderShapes :
        (/\ p_pc = "scan"
         /\ LastMarker(p_input) > 0
         /\ p_input[LastMarker(p_input)] = HeaderOf(t)
         /\ WellFormedBody(BodyAfterMarker(p_input), t[2], t[4]))
        => /\ IsSome(p_state.current_hunk)
           /\ LET hunk == Unwrap(p_state.current_hunk)
              IN  /\ hunk.old_start = t[1]
                  /\ hunk.old_lines = t[2]
                  /\ hunk.new_start = t[3]
                  /\ hunk.new_lines = t[4]
                  /\ CountTypes(hunk.lines, {"Context", "Removed"}) = hunk.old_lines
                  /\ CountTypes(hunk.lines, {"Context", "Added"}) = hunk.new_lines

-----------------------------------------------------------------------------
(* src/ui/side_by_side.rs *)

Spaces(n) == [i \in 1..n |-> " "]

\* chars().take(n).collect()
Take(s, n) == SubSeq(s, 1, Min(n, Len(s)))

\* a result that is either a value or a panic (an out-of-range slice)
Ok(v) == [panic |-> FALSE, value |-> v]

Panic == [panic |-> TRUE, value |-> <<>>]

\* apply_horizontal_scroll; chars[start_idx..final_end] panics when start_idx > final_end
ApplyHorizontalScroll(line, offset, max_width) ==
    IF Len(line) = 0 THEN Ok(<<>>)
    ELSE LET start_idx == Min(offset, Len(line))
             has_left == start_idx > 0
             available_width == IF has_left THEN SaturatingSub(max_width, 1) ELSE max_width
             end_idx == Min(start_idx + available_width, Len(line))
             has_right == end_idx < Len(line)
             final_end == IF has_right THEN SaturatingSub(end_idx, 1) ELSE end_idx
         IN  IF start_idx > final_end THEN Panic
             ELSE Ok((IF has_left THEN <<"<">> ELSE <<>>)
                        \o SubSeq(line, start_idx + 1, final_end)
                        \o (IF has_right THEN <<">">> ELSE <<>>))

\* a variant of FitWidth that truncates a long text and leaves a short one
FitWidth_TruncateOnly(text, max_width) == Take(text, max_width)

\* the match on display_len.cmp(&max_width): truncate or pad to exactly max_width
FitWidth(text, max_width) ==
    IF Len(text) > max_width THEN Take(text, max_width)
    ELSE text \o Spaces(max_width - Len(text))

\* format!("{n:4} "), or five spaces when the side has no line number
LineNumGutter(num) ==
    IF IsSome(num)
    THEN Spaces(SaturatingSub(4, Len(Digits(Unwrap(num))))) \o Digits(Unwrap(num)) \o <<" ">>
    ELSE Spaces(5)

StyleOf(line_type) ==
    IF line_type = "Added" THEN "added"
    ELSE IF line_type = "Removed" THEN "removed" ELSE "context"

PrefixOf(line_type) ==
    IF line_type = "Added" THEN "+" ELSE IF line_type = "Removed" THEN "-" ELSE " "

\* format_side_line: one styled cell
FormatSideLine(hunk_line, is_left, max_width, horizontal_offset) ==
    LET line_num == LineNumGutter(IF is_left THEN hunk_line.old_line_num
                                  ELSE hunk_line.new_line_num)
        full_content == <<PrefixOf(hunk_line.line_type)>> \o hunk_line.content
        scrolled == ApplyHorizontalScroll(full_content, horizontal_offset,
                                          SaturatingSub(max_width, Len(line_num)))
    IN  IF scrolled.panic THEN Panic
        ELSE Ok([text |-> FitWidth(line_num \o scrolled.value, max_width),
                 style |-> StyleOf(hunk_line.line_type)])

\* Line::from(" ".repeat(max_width)): an unstyled blank cell
BlankCell(max_width) == [text |-> Spaces(max_width), style |-> "plain"]

\* the hunk header row, the same cell on both sides
HeaderCell(hunk, max_width, horizontal_offset) ==
    LET header == ApplyHorizontalScroll(hunk.header, horizontal_offset, max_width)
    IN  IF header.panic THEN Panic
        ELSE Ok([text |-> FitWidth(header.value, max_width), style |-> "context"])

\* left_lines.push(l); right_lines.push(r): a panic in either cell ends the call
PushRow(acc, l, r) ==
    IF acc.panic THEN acc
    ELSE IF l.panic \/ r.panic THEN [acc EXCEPT !.panic = TRUE]
    ELSE [acc EXCEPT !.left = Append(@, l.value), !.right = Append(@, r.value)]

Advance(acc) == [acc EXCEPT !.current_line = @ + 1]

\* a plausible slip: the shorter run decides the number of paired rows
PairLen_Shorter(removed_len, added_len) == Min(removed_len, added_len)

\* max_len: the number of rows a removed run and the added run after it take
PairLen(removed_len, added_len) == Max(removed_len, added_len)

\* index one past the run of lines of type t that starts at i (1-based)
RECURSIVE RunEnd(_, _, _)
RunEnd(lines, i, t) ==
    IF i <= Len(lines) /\ lines[i].line_type = t THEN RunEnd(lines, i + 1, t) ELSE i

\* `for j in 0..max_len` over a removed run paired with the added run after it
RECURSIVE PairRows(_, _, _, _, _, _)
PairRows(acc, removed_lines, added_lines, j, max_len, w) ==
    IF j > max_len \/ acc.current_line >= w.skip + w.limit \/ acc.panic THEN acc
    ELSE LET row == IF acc.current_line >= w.skip
                    THEN PushRow(acc,
                            IF j <= Len(removed_lines)
                            THEN FormatSideLine(removed_lines[j], TRUE, w.max_width,
                                                w.horizontal_offset)
                            ELSE Ok(BlankCell(w.max_width)),
                            IF j <= Len(added_lines)
                            THEN FormatSideLine(added_lines[j], FALSE, w.max_width,
                                                w.horizontal_offset)
                            ELSE Ok(BlankCell(w.max_width)))
                    ELSE acc
         IN  PairRows(Advance(row), removed_lines, added_lines, j + 1, max_len, w)

\* `while i < hunk.lines.len() && current_line < end_line` (i is 1-based here)
RECURSIVE HunkRows(_, _, _, _)
HunkRows(acc, lines, i, w) ==
    IF i > Len(lines) \/ acc.current_line >= w.skip + w.limit \/ acc.panic THEN acc
    ELSE IF lines[i].line_type = "Context"
    THEN HunkRows(Advance(IF acc.current_line >= w.skip
                          THEN PushRow(acc,
                                  FormatSideLine(lines[i], TRUE, w.max_width,
                                                 w.horizontal_offset),
                                  FormatSideLine(lines[i], FALSE, w.max_width,
                                                 w.horizontal_offset))
                          ELSE acc),
                  lines, i + 1, w)
    ELSE IF lines[i].line_type = "Removed"
    THEN LET added_start == RunEnd(lines, i, "Removed")
             end == RunEnd(lines, added_start, "Added")
             removed_lines == SubSeq(lines, i, added_start - 1)
             added_lines == SubSeq(lines, added_start, end - 1)
         IN  HunkRows(PairRows(acc, removed_lines, added_lines, 1,
                               PairLen(Len(removed_lines), Len(added_lines)), w),
                      lines, end, w)
    ELSE HunkRows(Advance(IF acc.current_line >= w.skip
                          THEN PushRow(acc, Ok(BlankCell(w.max_width)),
                                  FormatSideLine(lines[i], FALSE, w.max_width,
                                                 w.horizontal_offset))
                          ELSE acc),
                  lines, i + 1, w)

\* a plausible slip: the upper end of the window is not tested
InWindow_NoUpperEnd(acc, w) == acc.current_line >= w.skip

\* `current_line >= skip && current_line < end_line` of the header and blank rows
InWindow(acc, w) == acc.current_line >= w.skip /\ acc.current_line < w.skip + w.limit

\* `for hunk in &file.hunks`, with its two `break`s
RECURSIVE FileRows(_, _, _, _)
FileRows(acc, hunks, h, w) ==
    IF h > Len(hunks) \/ acc.panic THEN acc
    ELSE LET hdr == HeaderCell(hunks[h], w.max_width, w.horizontal_offset)
             afterHeader == Advance(IF InWindow(acc, w) THEN PushRow(acc, hdr, hdr) ELSE acc)
         IN  IF afterHeader.current_line >= w.skip + w.limit \/ afterHeader.panic
             THEN afterHeader
             ELSE LET afterLines == HunkRows(afterHeader, hunks[h].lines, 1, w)
                      afterBlank == Advance(IF InWindow(afterLines, w)
                                            THEN PushRow(afterLines, Ok(BlankCell(w.max_width)),
                                                         Ok(BlankCell(w.max_width)))
                                            ELSE afterLines)
                  IN  IF afterBlank.current_line >= w.skip + w.limit \/ afterBlank.panic
                      THEN afterBlank
                      ELSE FileRows(afterBlank, hunks, h + 1, w)

\* create_side_by_side_lines for the selected file (None: no file is selected);
\* w = [skip, limit, max_width, horizontal_offset]
CreateSideBySideLines(selected_file, w) ==
    LET start == [left |-> <<>>, right |-> <<>>, current_line |-> 0, panic |-> FALSE]
        acc == IF IsSome(selected_file)
               THEN FileRows(start, Unwrap(selected_file).hunks, 1, w)
               ELSE start
    IN  [panic |-> acc.panic, left |-> acc.left, right |-> acc.right]

-----------------------------------------------------------------------------
(* The alignment engine applied to bounded files and windows *)

MaxHunkLines == 3

MaxSkip == 4

MaxLimit == 4

SbsWidths == {4, 8, 12}

SbsOffsets == {0, 2}

LineTypes == {"Context", "Removed", "Added"}

TypeSeqs(n) == UNION {[1..k -> LineTypes] : k \in 0..n}

ContentLetters == <<"p", "q", "r", "s", "t", "u">>

\* the text of one diff line of the given type; its content is "xy" and a letter
DiffLineOf(type, k) ==
    <<PrefixOf(type), "x", "y", ContentLetters[((k - 1) % 6) + 1]>>

\* the text of a hunk that starts at line `start` on both sides
HunkText(types, start) ==
    <<FormatHeader(start, CountTypes([i \in 1..Len(types) |-> [line_type |-> types[i]]],
                                     {"Context", "Removed"}),
                   start, CountTypes([i \in 1..Len(types) |-> [line_type |-> types[i]]],
                                     {"Context", "Added"}),
                   NoSection)>>
        \o [k \in 1..Len(types) |-> DiffLineOf(types[k], k)]

SecondHunks == {<<>>, <<"Context">>, <<"Removed", "Added", "Added">>}

\* a one-file diff whose second hunk, when there is one, starts at line 10
SbsFiles ==
    { ParseDiff(<<LnDiffGit, LnOldPath, LnNewPath>> \o HunkText(t1, 1)
                    \o (IF t2 = <<>> THEN <<>> ELSE HunkText(t2, 10)))[1]
        : t1 \in TypeSeqs(MaxHunkLines), t2 \in SecondHunks }

SbsInit ==
    /\ ParserIdle
    /\ SbsIdle
    /\ sbs_file \in {Some(f) : f \in SbsFiles}
    /\ AppNew
    /\ fn_call = None
    /\ repo_notes = <<>>
    /\ notes = [c \in CommitIds |-> None]

\* one call of create_side_by_side_lines by the renderer
SbsRender ==
    /\ IsSome(sbs_file)
    /\ sbs_out = None
    /\ \E skip \in 0..MaxSkip, limit \in 0..MaxLimit, width \in SbsWidths, off \in SbsOffsets :
          /\ sbs_w' = [skip |-> skip, limit |-> limit, max_width |-> width,
                       horizontal_offset |-> off]
          /\ sbs_out' = Some(CreateSideBySideLines(sbs_file, sbs_w'))
    /\ UNCHANGED <<parseVars, sbs_file, appVars, fn_call, repo_notes>>

NextSbs == SbsRender

SpecSbs == SbsInit /\ [][NextSbs]_vars

-----------------------------------------------------------------------------
(* The rows the alignment rule asks for *)

\* length of the maximal run of lines of type t that starts at index i
RunLen(lines, i, t) ==
    CHOOSE n \in 0..Len(lines) :
        /\ \A k \in i..(i + n - 1) : k <= Len(lines) /\ lines[k].line_type = t
        /\ (i + n > Len(lines) \/ lines[i + n].line_type # t)

\* the rows of a hunk's lines as pairs <<left index, right index>>, 0 for blank
RECURSIVE AlignedPairs(_, _)
AlignedPairs(lines, i) ==
    IF i > Len(lines) THEN <<>>
    ELSE IF lines[i].line_type = "Context" THEN <<<<i, i>>>> \o AlignedPairs(lines, i + 1)
    ELSE IF lines[i].line_type = "Added" THEN <<<<0, i>>>> \o AlignedPairs(lines, i + 1)
    ELSE LET r == RunLen(lines, i, "Removed")
             a == RunLen(lines, i + r, "Added")
         IN  [j \in 1..Max(r, a) |->
                 <<IF j <= r THEN i + j - 1 ELSE 0, IF j <= a THEN i + r + j - 1 ELSE 0>>]
                 \o AlignedPairs(lines, i + r + a)

CellOf(lines, idx, is_left, w) ==
    IF idx = 0 THEN BlankCell(w.max_width)
    ELSE FormatSideLine(lines[idx], is_left, w.max_width, w.horizontal_offset).value

\* the rows of one column of a hunk: header, aligned lines, blank row
HunkColumn(hunk, is_left, w) ==
    LET pairs == AlignedPairs(hunk.lines, 1)
    IN  <<HeaderCell(hunk, w.max_width, w.horizontal_offset).value>>
            \o [j \in 1..Len(pairs) |->
                  CellOf(hunk.lines, IF is_left THEN pairs[j][1] ELSE pairs[j][2], is_left, w)]
            \o <<BlankCell(w.max_width)>>

RECURSIVE FileColumn(_, _, _, _)
FileColumn(hunks, h, is_left, w) ==
    IF h > Len(hunks) THEN <<>>
    ELSE HunkColumn(hunks[h], is_left, w) \o FileColumn(hunks, h + 1, is_left, w)

\* rows skip .. skip+limit-1 (those that exist) of a row sequence
Window(rows, skip, limit) == SubSeq(rows, skip + 1, Min(skip + limit, Len(rows)))

SbsReturned == IsSome(sbs_out) /\ ~Unwrap(sbs_out).panic

\* C3: a run of r Removed lines followed by a run of a Added lines takes
\* max(r, a) rows, row j pairing removed line j (or a blank) with added line j
\* (or a blank); a Context line takes one row on both sides; an Added line not
\* after a Removed run takes one row with a blank left cell; so both columns
\* returned by create_side_by_side_lines are equally long for every window.
C3_Alignment ==
    SbsReturned =>
        LET out == Unwrap(sbs_out)
            hunks == Unwrap(sbs_file).hunks
        IN  /\ Len(out.left) = Len(out.right)
            /\ out.left = Window(FileColumn(hunks, 1, TRUE, sbs_w), sbs_w.skip, sbs_w.limit)
            /\ out.right = Window(FileColumn(hunks, 1, FALSE, sbs_w), sbs_w.skip, sbs_w.limit)

FirstHunkTypes ==
    LET lines == Unwrap(sbs_file).hunks[1].lines
    IN  [i \in 1..Len(lines) |-> lines[i].line_type]

\* two removed lines paired with one added line: the second row's right cell is blank
C3_Witness ==
    /\ SbsReturned
    /\ FirstHunkTypes = <<"Removed", "Removed", "Added">>
    /\ sbs_w.skip = 0 /\ sbs_w.limit = 4
    /\ Len(Unwrap(sbs_out).left) = 4
    /\ Unwrap(sbs_out).right[3] = BlankCell(sbs_w.max_width)
    /\ Unwrap(sbs_out).left[3].style = "removed"

\* an upper bound on the number of rows of a file
RECURSIVE RowBound(_, _)
RowBound(hunks, h) ==
    IF h > Len(hunks) THEN 0 ELSE Len(hunks[h].lines) + 2 + RowBound(hunks, h + 1)

\* the call with skip = 0 and a limit no row count reaches
AllRows ==
    CreateSideBySideLines(sbs_file,
        [sbs_w EXCEPT !.skip = 0, !.limit = RowBound(Unwrap(sbs_file).hunks, 1)])

\* C4: for every (skip, limit) the rows returned are rows skip .. skip+limit-1
\* (those that exist) of the rows returned with skip = 0 and no limit: at most
\* limit rows per column, none dropped and none duplicated.
C4_Windowing ==
    (SbsReturned /\ ~AllRows.panic) =>
        LET out == Unwrap(sbs_out)
        IN  /\ Len(out.left) <= sbs_w.limit
            /\ Len(out.right) <= sbs_w.limit
            /\ out.left = Window(AllRows.left, sbs_w.skip, sbs_w.limit)
            /\ out.right = Window(AllRows.right, sbs_w.skip, sbs_w.limit)

\* a window of one row that starts inside a removed/added block of a
\* two-hunk file and ends before the rest of the block
C4_Witness ==
    /\ SbsReturned
    /\ ~AllRows.panic
    /\ FirstHunkTypes = <<"Removed", "Removed", "Added">>
    /\ Len(Unwrap(sbs_file).hunks) = 2
    /\ sbs_w.skip = 2 /\ sbs_w.limit = 1
    /\ Len(Unwrap(sbs_out).left) = 1
    /\ Len(AllRows.left) > 4

-----------------------------------------------------------------------------
(* The repository under review: what generate_diff and diff_to_text return  *)
(* for each commit at the default context and at an expanded context.       *)
(* Commit c1 touches two files, c2 one file whose hunk header carries       *)
(* section text, and the tree of c3 cannot be diffed.                       *)

DiffC1Default ==
    << <<"d", "i", "f", "f", " ", "-", "-", "g", "i", "t", " ", "a", "/", "f", " ", "b", "/", "f">>,
       <<"-", "-", "-", " ", "a", "/", "f">>,
       <<"+", "+", "+", " ", "b", "/", "f">>,
       <<"@", "@", " ", "-", "1", ",", "2", " ", "+", "1", ",", "2", " ", "@", "@">>,
       <<" ", "b">>,
       <<"-", "A", "a">>,
       <<"+", "a", "a", "a">>,
       <<"d", "i", "f", "f", " ", "-", "-", "g", "i", "t", " ", "a", "/", "g", "b", " ", "b", "/", "g">>,
       <<"-", "-", "-", " ", "a", "/", "g", "b">>,
       <<"+", "+", "+", " ", "b", "/", "g">>,
       <<"@", "@", " ", "-", "3", ",", "1", " ", "+", "3", ",", "1", " ", "@", "@">>,
       <<"-", "b">>,
       <<"+", "E2">>,
       <<"@", "@", " ", "-", "9", ",", "1", " ", "+", "9", ",", "2", " ", "@", "@">>,
       <<" ", "c">>,
       <<"+", "b">> >>

DiffC1Expanded ==
    << <<"d", "i", "f", "f", " ", "-", "-", "g", "i", "t", " ", "a", "/", "f", " ", "b", "/", "f">>,
       <<"-", "-", "-", " ", "a", "/", "f">>,
       <<"+", "+", "+", " ", "b", "/", "f">>,
       <<"@", "@", " ", "-", "1", ",", "3", " ", "+", "1", ",", "3", " ", "@", "@">>,
       <<" ", "b">>,
       <<"-", "A", "a">>,
       <<"+", "a", "a", "a">>,
       <<" ", "c">>,
       <<"d", "i", "f", "f", " ", "-", "-", "g", "i", "t", " ", "a", "/", "g", "b", " ", "b", "/", "g">>,
       <<"-", "-", "-", " ", "a", "/", "g", "b">>,
       <<"+", "+", "+", " ", "b", "/", "g">>,
       <<"@", "@", " ", "-", "2", ",", "2", " ", "+", "2", ",", "2", " ", "@", "@">>,
       <<" ", "c">>,
       <<"-", "b">>,
       <<"+", "E2">>,
       <<"@", "@", " ", "-", "8", ",", "2", " ", "+", "8", ",", "3", " ", "@", "@">>,
       <<" ", "c">>,
       <<" ", "c">>,
       <<"+", "b">> >>

DiffC2Default ==
    << <<"d", "i", "f", "f", " ", "-", "-", "g", "i", "t", " ", "a", "/", "h", " ", "b", "/", "h">>,
       <<"-", "-", "-", " ", "a", "/", "h">>,
       <<"+", "+", "+", " ", "b", "/", "h">>,
       <<"@", "@", " ", "-", "5", ",", "1", " ", "+", "5", ",", "1", " ", "@", "@", " ", "B">>,
       <<"-", "x">>,
       <<"+", "y">> >>

DiffC2Expanded ==
    << <<"d", "i", "f", "f", " ", "-", "-", "g", "i", "t", " ", "a", "/", "h", " ", "b", "/", "h">>,
       <<"-", "-", "-", " ", "a", "/", "h">>,
       <<"+", "+", "+", " ", "b", "/", "h">>,
       <<"@", "@", " ", "-", "4", ",", "2", " ", "+", "4", ",", "2", " ", "@", "@", " ", "B">>,
       <<" ", "c">>,
       <<"-", "x">>,
       <<"+", "y">> >>

\* generate_diff followed by diff_to_text: Some(text) for Ok, None for Err
GenerateDiffText(commit_id, context_lines) ==
    IF commit_id = "c1"
    THEN Some(IF context_lines = default_context_lines THEN DiffC1Default
              ELSE DiffC1Expanded)
    ELSE IF commit_id = "c2"
    THEN Some(IF context_lines = default_context_lines THEN DiffC2Default
              ELSE DiffC2Expanded)
    ELSE None

\* parse_diff of every text the repository can produce
ParsedDiffs ==
    [c \in {"c1", "c2"}, expanded \in BOOLEAN |->
        ParseDiff(Unwrap(GenerateDiffText(c, IF expanded THEN default_context_lines + 1
                                             ELSE default_context_lines)))]

\* the Ok arm of load_diff_for_current_commit: parse_diff of the generated text
ParsedDiffOf(commit_id, context_lines) ==
    ParsedDiffs[commit_id, context_lines # default_context_lines]

-----------------------------------------------------------------------------
(* UTF-8 byte strings: str::len, str::find and the slice line_lower[start..] *)
(* count bytes, and a slice panics when it does not start on a character    *)
(* boundary.  A byte is <<c, k>>: the k-th byte of the character c.          *)

TwoByteChars == {"E2", "E2U"}

ByteLen(c) == IF c \in TwoByteChars THEN 2 ELSE 1

RECURSIVE Bytes(_)
Bytes(s) ==
    IF s = <<>> THEN <<>>
    ELSE [k \in 1..ByteLen(Head(s)) |-> <<Head(s), k>>] \o Bytes(Tail(s))

\* str::is_char_boundary(index)
IsCharBoundary(b, index) ==
    \/ index = 0
    \/ index = Len(b)
    \/ index < Len(b) /\ b[index + 1][2] = 1

UpperChars == <<"A", "B", "E2U">>

LowerChars == <<"a", "b", "E2">>

\* char::to_lowercase on the alphabet of the repository
LowerOf(c) ==
    IF \E i \in 1..Len(UpperChars) : UpperChars[i] = c
    THEN LowerChars[CHOOSE i \in 1..Len(UpperChars) : UpperChars[i] = c]
    ELSE c

\* str::to_lowercase
ToLowercase(s) == [i \in 1..Len(s) |-> LowerOf(s[i])]

\* str::find: the byte offset of the first occurrence of query in haystack
Find(haystack, query) ==
    LET hits == {p \in 0..(Len(haystack) - Len(query)) :
                    SubSeq(haystack, p + 1, p + Len(query)) = query}
    IN IF hits = {} THEN None
       ELSE Some(CHOOSE p \in hits : \A r \in hits : p <= r)

-----------------------------------------------------------------------------
(* The row walks of src/app/view.rs and src/app/search.rs.  Each walk is    *)
(* written in the code as its own loop over files, hunks and lines.         *)

\* the guard of the expand-below row: if let Some(file_lines) = file.new_file_lines
HasExpandBelow(file, hunk) ==
    IsSome(file.new_file_lines) /\ CanExpandBelow(hunk, Unwrap(file.new_file_lines))

\* the body of calculate_content_lines' loop over hunks
HunkContentLines(file, hunk) ==
    1 + Len(hunk.lines) + 1
      + (IF AvailableLinesAbove(hunk) > 0 THEN 1 ELSE 0)
      + (IF HasExpandBelow(file, hunk) THEN 1 ELSE 0)

RECURSIVE SumHunkContentLines(_, _)
SumHunkContentLines(file, h) ==
    IF h > Len(file.hunks) THEN 0
    ELSE HunkContentLines(file, file.hunks[h]) + SumHunkContentLines(file, h + 1)

RECURSIVE SumFileContentLines(_, _)
SumFileContentLines(files, f) ==
    IF f > Len(files) THEN 0
    ELSE (IF f > 1 THEN 3 ELSE 0) + 3 + SumHunkContentLines(files[f], 1)
         + SumFileContentLines(files, f + 1)

\* App::calculate_content_lines (and its copy calculate_content_lines_cached)
CalculateContentLines(files) == SumFileContentLines(files, 1)

\* the tuple returned by detect_comment_context
CommentContext(level, line_number, line_type, hunk_header) ==
    [level |-> level, line_number |-> line_number, line_type |-> line_type,
     hunk_header |-> hunk_header]

FileContext == CommentContext("File", None, None, None)

HunkContext(hunk) == CommentContext("Hunk", None, None, Some(hunk.header))

\* a variant of LineNumberOf that always reads the new side
LineNumberOf_NewSide(line) == line.new_line_num

\* detect_comment_context: the line number of a content line
LineNumberOf(line) ==
    IF line.line_type = "Added" THEN line.new_line_num
    ELSE IF line.line_type = "Removed" THEN line.old_line_num
    ELSE IF IsSome(line.new_line_num) THEN line.new_line_num ELSE line.old_line_num

\* the body of detect_comment_context's loop over hunks: a returned context,
\* or the value of current_line after the hunk
DetectHunk(file, hunk, current_line, target_line) ==
    LET hunk_header_line == current_line
        above == AvailableLinesAbove(hunk) > 0
        after_above == current_line + 1 + (IF above THEN 1 ELSE 0)
        on_line == {i \in 1..Len(hunk.lines) :
                       /\ after_above + (i - 1) = target_line
                       /\ IsSome(LineNumberOf(hunk.lines[i]))}
        after_lines == after_above + Len(hunk.lines)
        below == HasExpandBelow(file, hunk)
        after_below == after_lines + (IF below THEN 1 ELSE 0)
        after_blank == after_below + 1
    IN IF above /\ after_above - 1 = target_line
       THEN [found |-> TRUE, context |-> HunkContext(hunk), current_line |-> after_above]
       ELSE IF on_line # {}
       THEN LET line == hunk.lines[CHOOSE i \in on_line : TRUE]
            IN [found |-> TRUE,
                context |-> CommentContext("Line", LineNumberOf(line),
                                           Some(line.line_type), None),
                current_line |-> target_line]
       ELSE IF below /\ after_below - 1 = target_line
       THEN [found |-> TRUE, context |-> HunkContext(hunk), current_line |-> after_below]
       ELSE IF target_line >= hunk_header_line /\ target_line < after_blank
       THEN [found |-> TRUE, context |-> HunkContext(hunk), current_line |-> after_blank]
       ELSE [found |-> FALSE, context |-> FileContext, current_line |-> after_blank]

RECURSIVE DetectHunks(_, _, _, _)
DetectHunks(file, h, current_line, target_line) ==
    IF h > Len(file.hunks)
    THEN [found |-> FALSE, context |-> FileContext, current_line |-> current_line]
    ELSE LET r == DetectHunk(file, file.hunks[h], current_line, target_line)
         IN IF r.found THEN r ELSE DetectHunks(file, h + 1, r.current_line, target_line)

RECURSIVE DetectFiles(_, _, _, _)
DetectFiles(files, f, current_line, target_line) ==
    IF f > Len(files) THEN FileContext
    ELSE LET after_separator == IF f > 1 THEN current_line + 3 ELSE current_line
             after_header == after_separator + 3
         IN IF f > 1 /\ after_separator > target_line THEN FileContext
            ELSE IF after_header > target_line THEN FileContext
            ELSE LET r == DetectHunks(files[f], 1, after_header, target_line)
                 IN IF r.found THEN r.context
                    ELSE DetectFiles(files, f + 1, r.current_line, target_line)

\* App::detect_comment_context
DetectCommentContext(files, target_line) ==
    IF files = <<>> THEN FileContext ELSE DetectFiles(files, 1, 0, target_line)

\* one call of find_matches_in_line by execute_search: the text searched, the
\* line_index passed, and (for reference only) which part of the diff it is
SearchTarget(line_index, text, kind, f, h, i) ==
    [line_index |-> line_index, text |-> text, kind |-> kind, file |-> f, hunk |-> h,
     line |-> i]

\* a variant of SearchSeparatorRows that forgets the separator rows
SearchSeparatorRows_None(f) == 0

\* execute_search: the rows added for the file separator
SearchSeparatorRows(f) == IF f > 1 THEN 3 ELSE 0

\* the body of execute_search's loop over hunks
SearchHunk(file, hunk, line_index, f, h) ==
    LET after_header == line_index + 1
        after_above == IF AvailableLinesAbove(hunk) > 0 THEN after_header + 1
                       ELSE after_header
        after_lines == after_above + Len(hunk.lines)
        after_below == IF HasExpandBelow(file, hunk) THEN after_lines + 1 ELSE after_lines
    IN [targets |-> <<SearchTarget(line_index, hunk.header, "hunk_header", f, h, 0)>>
                    \o [i \in 1..Len(hunk.lines) |->
                           SearchTarget(after_above + (i - 1), hunk.lines[i].content,
                                        "line", f, h, i)],
        line_index |-> after_below + 1]

RECURSIVE SearchHunks(_, _, _, _, _)
SearchHunks(file, h, line_index, f, targets) ==
    IF h > Len(file.hunks) THEN [targets |-> targets, line_index |-> line_index]
    ELSE LET r == SearchHunk(file, file.hunks[h], line_index, f, h)
         IN SearchHunks(file, h + 1, r.line_index, f, targets \o r.targets)

RECURSIVE SearchFiles(_, _, _, _)
SearchFiles(files, f, line_index, targets) ==
    IF f > Len(files) THEN targets
    ELSE LET start == line_index + SearchSeparatorRows(f)
             paths == << SearchTarget(start, files[f].old_path, "old_path", f, 0, 0),
                         SearchTarget(start + 1, files[f].new_path, "new_path", f, 0, 0) >>
             r == SearchHunks(files[f], 1, start + 3, f, targets \o paths)
         IN SearchFiles(files, f + 1, r.line_index, r.targets)

\* every text execute_search looks into, with its line_index, in walk order
SearchTargets(files) == SearchFiles(files, 1, 0, <<>>)

SearchMatch(line_index, char_start, char_end) ==
    [line_index |-> line_index, char_start |-> char_start, char_end |-> char_end]

\* find_matches_in_line from byte offset start; line_lower and query are byte strings
RECURSIVE FindMatchesInLine(_, _, _, _, _)
FindMatchesInLine(line_lower, line_index, query, matches, start) ==
    IF ~IsCharBoundary(line_lower, start) THEN Panic
    ELSE LET pos == Find(SubSeq(line_lower, start + 1, Len(line_lower)), query)
         IN IF ~IsSome(pos) THEN Ok(matches)
            ELSE LET absolute_pos == start + Unwrap(pos)
                 IN FindMatchesInLine(line_lower, line_index, query,
                        Append(matches, SearchMatch(line_index, absolute_pos,
                                                    absolute_pos + Len(query))),
                        absolute_pos + 1)

RECURSIVE SearchAll(_, _, _, _)
SearchAll(targets, t, query, matches) ==
    IF t > Len(targets) THEN Ok(matches)
    ELSE LET r == FindMatchesInLine(Bytes(ToLowercase(targets[t].text)),
                                    targets[t].line_index, query, matches, 0)
         IN IF r.panic THEN Panic ELSE SearchAll(targets, t + 1, query, r.value)

\* execute_search: the matches collected for a non-empty query, or a panic
CollectMatches(files, search_query_) ==
    SearchAll(SearchTargets(files), 1, Bytes(ToLowercase(search_query_)), <<>>)

-----------------------------------------------------------------------------
(* Comments (src/comments.rs) and their storage in git notes                 *)
(* (src/git/notes.rs).  The created_at and timestamp fields are left out:    *)
(* no operation of the model reads them.                                     *)

\* App.current_branch, as get_current_branch returned it
CurrentBranch == <<"m", "a", "i", "n">>

\* Comment::new_line
NewLineComment(file_path, line_number, line_type, text) ==
    [level |-> "Line", file_path |-> file_path,
     location |-> [variant |-> "Line", number |-> line_number, kind |-> line_type],
     text |-> text]

\* Comment::new_hunk
NewHunkComment(file_path, hunk_header, text) ==
    [level |-> "Hunk", file_path |-> file_path,
     location |-> [variant |-> "Hunk", header |-> hunk_header], text |-> text]

\* Comment::new_file
NewFileComment(file_path, text) ==
    [level |-> "File", file_path |-> file_path, location |-> [variant |-> "File"],
     text |-> text]

\* Comment::matches_line
MatchesLine(c, file, line_num, line_type) ==
    /\ c.file_path = file
    /\ c.location.variant = "Line"
    /\ c.location.number = line_num
    /\ c.location.kind = line_type

\* Comment::matches_hunk
MatchesHunk(c, file, hunk_header) ==
    /\ c.file_path = file
    /\ c.location.variant = "Hunk"
    /\ c.location.header = hunk_header

\* Comment::matches_file
MatchesFile(c, file) == c.file_path = file /\ c.location.variant = "File"

\* CommitComments::new
NewCommitComments(commit_id, branch) ==
    [commit_id |-> commit_id, branch |-> branch, comments |-> <<>>]

\* CommitComments::add_comment
AddComment(cc, comment) == [cc EXCEPT !.comments = Append(@, comment)]

\* Vec::remove(index), index counted from 0
RemoveAt(s, index) == SubSeq(s, 1, index) \o SubSeq(s, index + 2, Len(s))

\* CommitComments::remove_comment: the removed comment (if any) and the collection left
RemoveComment(cc, index) ==
    IF index < Len(cc.comments)
    THEN [removed |-> Some(cc.comments[index + 1]),
          cc |-> [cc EXCEPT !.comments = RemoveAt(@, index)]]
    ELSE [removed |-> None, cc |-> cc]

\* CommitComments::comments_at_line
CommentsAtLine(cc, file, line_num, line_type) ==
    LET Keep(c) == MatchesLine(c, file, line_num, line_type) IN SelectSeq(cc.comments, Keep)

\* CommitComments::comments_at_hunk
CommentsAtHunk(cc, file, hunk_header) ==
    LET Keep(c) == MatchesHunk(c, file, hunk_header) IN SelectSeq(cc.comments, Keep)

\* CommitComments::file_level_comments
FileLevelComments(cc, file) ==
    LET Keep(c) == MatchesFile(c, file) IN SelectSeq(cc.comments, Keep)

\* serde rename_all = "lowercase" on CommentLevel and on the tag of CommentLocation
SerdeLowercase(name) ==
    IF name = "Line" THEN "line" ELSE IF name = "Hunk" THEN "hunk" ELSE "file"

\* the inverse renaming on deserialization; None for an unknown variant
SerdeVariant(name) ==
    IF name = "line" THEN Some("Line")
    ELSE IF name = "hunk" THEN Some("Hunk")
    ELSE IF name = "file" THEN Some("File")
    ELSE None

\* Serialize for CommentLocation: internally tagged, kind renamed to line_type
LocationToJson(location) ==
    IF location.variant = "Line"
    THEN [type |-> "line", number |-> location.number, line_type |-> location.kind]
    ELSE IF location.variant = "Hunk"
    THEN [type |-> "hunk", header |-> location.header]
    ELSE [type |-> "file"]

\* Deserialize for CommentLocation
LocationFromJson(json) ==
    IF json.type = "line"
    THEN [variant |-> "Line", number |-> json.number, kind |-> json.line_type]
    ELSE IF json.type = "hunk"
    THEN [variant |-> "Hunk", header |-> json.header]
    ELSE [variant |-> "File"]

\* Serialize for Comment
CommentToJson(c) ==
    [level |-> SerdeLowercase(c.level), file_path |-> c.file_path,
     location |-> LocationToJson(c.location), text |-> c.text]

\* Deserialize for Comment
CommentFromJson(json) ==
    [level |-> Unwrap(SerdeVariant(json.level)), file_path |-> json.file_path,
     location |-> LocationFromJson(json.location), text |-> json.text]

\* CommitComments::to_json
ToJson(cc) ==
    [commit_id |-> cc.commit_id, branch |-> cc.branch,
     comments |-> [i \in 1..Len(cc.comments) |-> CommentToJson(cc.comments[i])]]

\* CommitComments::from_json
FromJson(json) ==
    [commit_id |-> json.commit_id, branch |-> json.branch,
     comments |-> [i \in 1..Len(json.comments) |-> CommentFromJson(json.comments[i])]]

\* the Result of a notes operation: ok is FALSE for Err; store is the notes ref
\* after the call; value is what Ok carries
NotesResult(ok, store, value) == [ok |-> ok, store |-> store, value |-> value]

\* notes::write_comments; io_ok is FALSE when the signature or repo.note fails
WriteComments(store, commit_oid, cc, io_ok) ==
    IF io_ok THEN NotesResult(TRUE, [store EXCEPT ![commit_oid] = Some(ToJson(cc))], TRUE)
    ELSE NotesResult(FALSE, store, FALSE)

\* notes::read_comments; io_ok is FALSE when find_note fails with another error
\* than NotFound
ReadComments(store, commit_oid, io_ok) ==
    IF ~io_ok THEN NotesResult(FALSE, store, None)
    ELSE IF IsSome(store[commit_oid])
    THEN NotesResult(TRUE, store, Some(FromJson(Unwrap(store[commit_oid]))))
    ELSE NotesResult(TRUE, store, None)

\* notes::delete_commit_note
DeleteCommitNote(store, commit_oid, io_ok) ==
    IF io_ok THEN NotesResult(TRUE, [store EXCEPT ![commit_oid] = None],
                              IsSome(store[commit_oid]))
    ELSE NotesResult(FALSE, store, FALSE)

\* notes::delete_comment
NotesDeleteComment(store, commit_oid, comment_index, read_ok, write_ok) ==
    LET read == ReadComments(store, commit_oid, read_ok)
    IN IF ~read.ok THEN NotesResult(FALSE, store, FALSE)
       ELSE IF ~IsSome(read.value) THEN NotesResult(TRUE, store, FALSE)
       ELSE LET removal == RemoveComment(Unwrap(read.value), comment_index)
            IN IF ~IsSome(removal.removed) THEN NotesResult(TRUE, store, FALSE)
               ELSE IF removal.cc.comments = <<>>
               THEN LET d == DeleteCommitNote(store, commit_oid, write_ok)
                    IN NotesResult(d.ok, d.store, d.ok)
               ELSE LET w == WriteComments(store, commit_oid, removal.cc, write_ok)
                    IN NotesResult(w.ok, w.store, w.ok)

\* notes::read_all_for_branch: the collections of all notes under the ref
ReadAllForBranch(store, io_ok) ==
    IF ~io_ok THEN NotesResult(FALSE, store, {})
    ELSE NotesResult(TRUE, store,
                     {FromJson(Unwrap(store[c])) : c \in {d \in CommitIds : IsSome(store[d])}})

-----------------------------------------------------------------------------
(* The application state machine: main's start-up sequence and the public   *)
(* methods of App, each as one action.                                       *)

\* the number of expand_context calls explored above the default context
MaxExpands == 2

\* the amounts input.rs passes to scroll: j/k keys and the mouse wheel
ScrollAmounts == {-3, -1, 1, 3}

\* terminal sizes reported by crossterm: the default and a shorter terminal
TerminalSizes == {<<80, 24>>, <<80, 22>>}

\* the queries typed into the search prompt
Queries == {<<"a", "a">>, <<"B">>, <<"E2">>}

\* a call of an App method: its name, its index argument (0 when it has none)
\* and what it returned
CallWith(op, arg, result) == [op |-> op, arg |-> arg, result |-> result]

Call(op, result) == CallWith(op, 0, result)

\* the texts App stores in status_message, with their format arguments
Status(text, a, b, q) == Some([text |-> text, a |-> a, b |-> b, q |-> q])

Running == app_pc = "running"

\* App::selected_commit, as the commit id
SelectedCommit ==
    IF selected_commit_index < Len(Commits) THEN Some(Commits[selected_commit_index + 1])
    ELSE None

\* App::selected_file
SelectedFile ==
    IF selected_file_index < Len(current_files)
    THEN Some(current_files[selected_file_index + 1])
    ELSE None

\* a variant of LoadDiffForCurrentCommit that keeps the files on screen when the
\* diff cannot be generated
LoadDiffForCurrentCommit_KeepOnFailure(commit_index, context_lines) ==
    IF commit_index < Len(Commits)
         /\ IsSome(GenerateDiffText(Commits[commit_index + 1], context_lines))
    THEN [current_files |-> ParsedDiffOf(Commits[commit_index + 1], context_lines),
          selected_file_index |-> 0]
    ELSE [current_files |-> current_files, selected_file_index |-> selected_file_index]

\* App::load_diff_for_current_commit: the new current_files and selected_file_index
LoadDiffForCurrentCommit(commit_index, context_lines) ==
    IF commit_index < Len(Commits)
    THEN IF IsSome(GenerateDiffText(Commits[commit_index + 1], context_lines))
         THEN [current_files |-> ParsedDiffOf(Commits[commit_index + 1], context_lines),
               selected_file_index |-> 0]
         ELSE [current_files |-> <<>>, selected_file_index |-> selected_file_index]
    ELSE [current_files |-> current_files, selected_file_index |-> selected_file_index]

\* main: app.load_comments()
LoadComments ==
    /\ app_pc = "new"
    /\ app_pc' = "loaded"
    /\ \E io_ok \in BOOLEAN :
          LET all == ReadAllForBranch(notes, io_ok)
          IN comments_by_commit' =
                 [c \in CommitIds |->
                     IF all.ok /\ \E cc \in all.value : cc.commit_id = c
                     THEN Some(CHOOSE cc \in all.value : cc.commit_id = c)
                     ELSE comments_by_commit[c]]
    /\ last_call' = Call("load_comments", "Ok")
    /\ UNCHANGED <<fn_call, repo_notes, parseVars, sbsVars, viewVars, searchVars, comment_mode, comment_draft,
                   notes, status_message>>

\* main: app.init_diff()
InitDiff ==
    /\ app_pc = "loaded"
    /\ app_pc' = "running"
    /\ LET d == LoadDiffForCurrentCommit(selected_commit_index, current_context_lines)
       IN /\ current_files' = d.current_files
          /\ selected_file_index' = d.selected_file_index
    /\ last_call' = Call("init_diff", "Ok")
    /\ UNCHANGED <<fn_call, repo_notes, parseVars, sbsVars, commentVars, searchVars, status_message,
                   selected_commit_index, scroll_offset, horizontal_scroll, cursor_line,
                   terminal_width, terminal_height, current_context_lines>>

\* the assignments of App::scroll
ScrollEffect(amount) ==
    LET content_lines == CalculateContentLines(current_files)
        visible_height == SaturatingSub(terminal_height, 3)
        max_scroll == SaturatingSub(content_lines, visible_height)
    IN IF amount < 0
       THEN [scroll_offset |-> SaturatingSub(scroll_offset, -amount),
             cursor_line |-> SaturatingSub(cursor_line, -amount)]
       ELSE [scroll_offset |-> Min(scroll_offset + amount, max_scroll),
             cursor_line |-> Min(cursor_line + amount, content_lines)]

\* App::scroll
Scroll ==
    /\ Running
    /\ \E amount \in ScrollAmounts :
          /\ scroll_offset' = ScrollEffect(amount).scroll_offset
          /\ cursor_line' = ScrollEffect(amount).cursor_line
    /\ last_call' = Call("scroll", "Ok")
    /\ UNCHANGED <<fn_call, repo_notes, parseVars, sbsVars, app_pc, commentVars, searchVars, status_message,
                   selected_commit_index, selected_file_index, horizontal_scroll,
                   terminal_width, terminal_height, current_files, current_context_lines>>

\* App::scroll_page
ScrollPage ==
    /\ Running
    /\ \E direction \in {-1, 1} :
          LET visible_height == SaturatingSub(terminal_height, 3)
              amount == IF direction < 0 THEN -visible_height ELSE visible_height
          IN /\ scroll_offset' = ScrollEffect(amount).scroll_offset
             /\ cursor_line' = ScrollEffect(amount).cursor_line
    /\ last_call' = Call("scroll_page", "Ok")
    /\ UNCHANGED <<fn_call, repo_notes, parseVars, sbsVars, app_pc, commentVars, searchVars, status_message,
                   selected_commit_index, selected_file_index, horizontal_scroll,
                   terminal_width, terminal_height, current_files, current_context_lines>>

\* App::handle_resize
HandleResize ==
    /\ Running
    /\ \E size \in TerminalSizes :
          /\ terminal_width' = size[1]
          /\ terminal_height' = size[2]
    /\ last_call' = Call("handle_resize", "Ok")
    /\ UNCHANGED <<fn_call, repo_notes, parseVars, sbsVars, app_pc, commentVars, searchVars, status_message,
                   selected_commit_index, selected_file_index, scroll_offset,
                   horizontal_scroll, cursor_line, current_files, current_context_lines>>

\* a variant of SwitchCommit that loads the new commit at the context reached
\* on the previous one
SwitchCommit_KeepContext(index) ==
    /\ selected_commit_index' = index
    /\ scroll_offset' = 0
    /\ horizontal_scroll' = 0
    /\ current_context_lines' = current_context_lines
    /\ LET d == LoadDiffForCurrentCommit(index, current_context_lines)
       IN /\ current_files' = d.current_files
          /\ selected_file_index' = d.selected_file_index
    /\ UNCHANGED cursor_line

\* the assignments shared by select_commit, next_commit and previous_commit
\* once the new index is chosen: scroll_offset = 0, reset_horizontal_scroll,
\* reset_context
SwitchCommit(index) ==
    /\ selected_commit_index' = index
    /\ scroll_offset' = 0
    /\ horizontal_scroll' = 0
    /\ current_context_lines' = default_context_lines
    /\ LET d == LoadDiffForCurrentCommit(index, default_context_lines)
       IN /\ current_files' = d.current_files
          /\ selected_file_index' = d.selected_file_index
    /\ UNCHANGED cursor_line

\* App::select_commit
SelectCommit ==
    /\ Running
    /\ \E index \in 0..Len(Commits) :
          IF index < Len(Commits) /\ index # selected_commit_index
          THEN SwitchCommit(index)
          ELSE UNCHANGED <<selected_commit_index, selected_file_index, scroll_offset,
                           horizontal_scroll, cursor_line, current_files,
                           current_context_lines>>
    /\ last_call' = CallWith("select_commit", 0, "Ok")
    /\ UNCHANGED <<fn_call, repo_notes, parseVars, sbsVars, app_pc, commentVars, searchVars, status_message,
                   terminal_width, terminal_height>>

\* App::next_commit
NextCommit ==
    /\ Running
    /\ IF selected_commit_index + 1 < Len(Commits)
       THEN SwitchCommit(selected_commit_index + 1)
       ELSE UNCHANGED <<selected_commit_index, selected_file_index, scroll_offset,
                        horizontal_scroll, cursor_line, current_files,
                        current_context_lines>>
    /\ last_call' = Call("next_commit", "Ok")
    /\ UNCHANGED <<fn_call, repo_notes, parseVars, sbsVars, app_pc, commentVars, searchVars, status_message,
                   terminal_width, terminal_height>>

\* App::previous_commit
PreviousCommit ==
    /\ Running
    /\ IF selected_commit_index > 0
       THEN SwitchCommit(selected_commit_index - 1)
       ELSE UNCHANGED <<selected_commit_index, selected_file_index, scroll_offset,
                        horizontal_scroll, cursor_line, current_files,
                        current_context_lines>>
    /\ last_call' = Call("previous_commit", "Ok")
    /\ UNCHANGED <<fn_call, repo_notes, parseVars, sbsVars, app_pc, commentVars, searchVars, status_message,
                   terminal_width, terminal_height>>

\* App::next_file
NextFile ==
    /\ Running
    /\ IF selected_file_index + 1 < Len(current_files)
       THEN /\ selected_file_index' = selected_file_index + 1
            /\ scroll_offset' = 0
            /\ horizontal_scroll' = 0
       ELSE UNCHANGED <<selected_file_index, scroll_offset, horizontal_scroll>>
    /\ last_call' = Call("next_file", "Ok")
    /\ UNCHANGED <<fn_call, repo_notes, parseVars, sbsVars, app_pc, commentVars, searchVars, status_message,
                   selected_commit_index, cursor_line, terminal_width, terminal_height,
                   current_files, current_context_lines>>

\* App::previous_file
PreviousFile ==
    /\ Running
    /\ IF selected_file_index > 0
       THEN /\ selected_file_index' = selected_file_index - 1
            /\ scroll_offset' = 0
            /\ horizontal_scroll' = 0
       ELSE UNCHANGED <<selected_file_index, scroll_offset, horizontal_scroll>>
    /\ last_call' = Call("previous_file", "Ok")
    /\ UNCHANGED <<fn_call, repo_notes, parseVars, sbsVars, app_pc, commentVars, searchVars, status_message,
                   selected_commit_index, cursor_line, terminal_width, terminal_height,
                   current_files, current_context_lines>>

\* App::expand_context
ExpandContext ==
    /\ Running
    /\ current_context_lines
         < default_context_lines + MaxExpands * default_context_expand_increment
    /\ current_context_lines' = current_context_lines + default_context_expand_increment
    /\ LET d == LoadDiffForCurrentCommit(selected_commit_index, current_context_lines')
       IN /\ current_files' = d.current_files
          /\ selected_file_index' = d.selected_file_index
    /\ scroll_offset' = 0
    /\ last_call' = Call("expand_context", "Ok")
    /\ UNCHANGED <<fn_call, repo_notes, parseVars, sbsVars, app_pc, commentVars, searchVars, status_message,
                   selected_commit_index, horizontal_scroll, cursor_line, terminal_width,
                   terminal_height>>

\* App::reset_context
ResetContext ==
    /\ Running
    /\ current_context_lines' = default_context_lines
    /\ LET d == LoadDiffForCurrentCommit(selected_commit_index, default_context_lines)
       IN /\ current_files' = d.current_files
          /\ selected_file_index' = d.selected_file_index
    /\ scroll_offset' = 0
    /\ last_call' = Call("reset_context", "Ok")
    /\ UNCHANGED <<fn_call, repo_notes, parseVars, sbsVars, app_pc, commentVars, searchVars, status_message,
                   selected_commit_index, horizontal_scroll, cursor_line, terminal_width,
                   terminal_height>>

\* App::start_search
StartSearch ==
    /\ Running
    /\ search_mode' = "Entering"
    /\ search_query' = <<>>
    /\ last_call' = Call("start_search", "Ok")
    /\ UNCHANGED <<fn_call, repo_notes, parseVars, sbsVars, app_pc, viewVars, commentVars, status_message,
                   search_matches, current_match_index>>

\* the search prompt: the query typed while search_mode is Entering
TypeQuery ==
    /\ Running
    /\ search_mode = "Entering"
    /\ search_query = <<>>
    /\ search_query' \in Queries
    /\ last_call' = Call("type_query", "Ok")
    /\ UNCHANGED <<fn_call, repo_notes, parseVars, sbsVars, app_pc, viewVars, commentVars, status_message,
                   search_mode, search_matches, current_match_index>>

\* App::scroll_to_match: the new cursor_line and scroll_offset
ScrollToMatch(matches, match_idx) ==
    IF match_idx < Len(matches)
    THEN LET search_match == matches[match_idx + 1]
             visible_height == SaturatingSub(terminal_height, 3)
             target_scroll == SaturatingSub(search_match.line_index, visible_height \div 2)
             content_lines == CalculateContentLines(current_files)
             max_scroll == SaturatingSub(content_lines, visible_height)
         IN [cursor_line |-> search_match.line_index,
             scroll_offset |-> Min(target_scroll, max_scroll)]
    ELSE [cursor_line |-> cursor_line, scroll_offset |-> scroll_offset]

\* App::execute_search
ExecuteSearch ==
    /\ Running
    /\ IF search_query = <<>>
       THEN /\ search_matches' = <<>>
            /\ current_match_index' = None
            /\ search_mode' = "Normal"
            /\ last_call' = Call("execute_search", "Ok")
            /\ UNCHANGED <<app_pc, cursor_line, scroll_offset, status_message>>
       ELSE LET found == CollectMatches(current_files, search_query)
            IN IF found.panic
               THEN /\ app_pc' = "panicked"
                    /\ search_matches' = <<>>
                    /\ current_match_index' = None
                    /\ last_call' = Call("execute_search", "Panic")
                    /\ UNCHANGED <<search_mode, cursor_line, scroll_offset,
                                   status_message>>
               ELSE /\ search_matches' = found.value
                    /\ IF found.value # <<>>
                       THEN /\ current_match_index' = Some(0)
                            /\ cursor_line' = ScrollToMatch(found.value, 0).cursor_line
                            /\ scroll_offset' = ScrollToMatch(found.value, 0).scroll_offset
                            /\ status_message' =
                                   Status("Match 1/{} - Press n/N for next/prev", 1,
                                          Len(found.value), <<>>)
                       ELSE /\ current_match_index' = None
                            /\ status_message' =
                                   Status("No matches found for '{}'", 0, 0, search_query)
                            /\ UNCHANGED <<cursor_line, scroll_offset>>
                    /\ search_mode' = "Normal"
                    /\ last_call' = Call("execute_search", "Ok")
                    /\ UNCHANGED app_pc
    /\ UNCHANGED <<fn_call, repo_notes, parseVars, sbsVars, commentVars, search_query, selected_commit_index,
                   selected_file_index, horizontal_scroll, terminal_width, terminal_height,
                   current_files, current_context_lines>>

\* a variant of NextMatchIndex that stays on the last match
NextMatchIndex_Stay(index, len) ==
    IF IsSome(index) THEN (IF Unwrap(index) + 1 >= len THEN Unwrap(index)
                           ELSE Unwrap(index) + 1)
    ELSE 0

\* next_match: the index it moves to
NextMatchIndex(index, len) ==
    IF IsSome(index) THEN (IF Unwrap(index) + 1 >= len THEN 0 ELSE Unwrap(index) + 1)
    ELSE 0

\* prev_match: the index it moves to
PrevMatchIndex(index, len) ==
    IF IsSome(index) THEN (IF Unwrap(index) = 0 THEN len - 1 ELSE Unwrap(index) - 1)
    ELSE 0

\* the part of next_match and prev_match after the index is chosen
GoToMatch(idx) ==
    /\ current_match_index' = Some(idx)
    /\ cursor_line' = ScrollToMatch(search_matches, idx).cursor_line
    /\ scroll_offset' = ScrollToMatch(search_matches, idx).scroll_offset
    /\ status_message' = Status("Match {}/{}", idx + 1, Len(search_matches), <<>>)

\* App::next_match
NextMatch ==
    /\ Running
    /\ IF search_matches = <<>>
       THEN /\ status_message' = Status("No active search. Press / to search.", 0, 0, <<>>)
            /\ UNCHANGED <<current_match_index, cursor_line, scroll_offset>>
       ELSE GoToMatch(NextMatchIndex(current_match_index, Len(search_matches)))
    /\ last_call' = Call("next_match", "Ok")
    /\ UNCHANGED <<fn_call, repo_notes, parseVars, sbsVars, app_pc, commentVars, search_mode, search_query,
                   search_matches, selected_commit_index, selected_file_index,
                   horizontal_scroll, terminal_width, terminal_height, current_files,
                   current_context_lines>>

\* App::prev_match
PrevMatch ==
    /\ Running
    /\ IF search_matches = <<>>
       THEN /\ status_message' = Status("No active search. Press / to search.", 0, 0, <<>>)
            /\ UNCHANGED <<current_match_index, cursor_line, scroll_offset>>
       ELSE GoToMatch(PrevMatchIndex(current_match_index, Len(search_matches)))
    /\ last_call' = Call("prev_match", "Ok")
    /\ UNCHANGED <<fn_call, repo_notes, parseVars, sbsVars, app_pc, commentVars, search_mode, search_query,
                   search_matches, selected_commit_index, selected_file_index,
                   horizontal_scroll, terminal_width, terminal_height, current_files,
                   current_context_lines>>

\* App::clear_search
ClearSearch ==
    /\ Running
    /\ search_mode' = "Normal"
    /\ search_query' = <<>>
    /\ search_matches' = <<>>
    /\ current_match_index' = None
    /\ status_message' = None
    /\ last_call' = Call("clear_search", "Ok")
    /\ UNCHANGED <<fn_call, repo_notes, parseVars, sbsVars, app_pc, viewVars, commentVars>>

\* the application after App::new, in a repository without notes
ViewInit ==
    /\ ParserIdle
    /\ SbsIdle
    /\ sbs_file = None
    /\ AppNew
    /\ fn_call = None
    /\ repo_notes = <<>>
    /\ notes = [c \in CommitIds |-> None]

\* moving through the diffs: scrolling, resizing, commit and file navigation,
\* context changes
NextView ==
    \/ LoadComments
    \/ InitDiff
    \/ Scroll
    \/ ScrollPage
    \/ HandleResize
    \/ SelectCommit
    \/ NextCommit
    \/ PreviousCommit
    \/ NextFile
    \/ PreviousFile
    \/ ExpandContext
    \/ ResetContext

SpecView == ViewInit /\ [][NextView]_vars

\* searching the diffs: the search operations, with the commit and context
\* changes that replace the diff under the matches
NextSearch ==
    \/ LoadComments
    \/ InitDiff
    \/ NextCommit
    \/ PreviousCommit
    \/ ExpandContext
    \/ ResetContext
    \/ StartSearch
    \/ TypeQuery
    \/ ExecuteSearch
    \/ NextMatch
    \/ PrevMatch
    \/ ClearSearch

SpecSearch == ViewInit /\ [][NextSearch]_vars

-----------------------------------------------------------------------------
(* The global row numbering of a loaded diff, written out as a table: one   *)
(* entry per content row, in display order.                                 *)

Row(kind, f, h, i, text) == [kind |-> kind, file |-> f, hunk |-> h, line |-> i, text |-> text]

HunkRowTable(file, f, h) ==
    LET hunk == file.hunks[h]
    IN <<Row("hunk_header", f, h, 0, hunk.header)>>
       \o (IF hunk.old_start > 1 /\ hunk.new_start > 1
           THEN <<Row("expand_above", f, h, 0, <<>>)>> ELSE <<>>)
       \o [i \in 1..Len(hunk.lines) |-> Row("line", f, h, i, hunk.lines[i].content)]
       \o (IF file.new_file_lines # None
              /\ hunk.new_start + hunk.new_lines < file.new_file_lines[1]
           THEN <<Row("expand_below", f, h, 0, <<>>)>> ELSE <<>>)
       \o <<Row("hunk_blank", f, h, 0, <<>>)>>

RECURSIVE HunksRowTable(_, _, _)
HunksRowTable(file, f, h) ==
    IF h > Len(file.hunks) THEN <<>>
    ELSE HunkRowTable(file, f, h) \o HunksRowTable(file, f, h + 1)

RECURSIVE FilesRowTable(_, _)
FilesRowTable(files, f) ==
    IF f > Len(files) THEN <<>>
    ELSE (IF f > 1 THEN [k \in 1..3 |-> Row("separator", f, 0, 0, <<>>)] ELSE <<>>)
         \o << Row("old_path", f, 0, 0, files[f].old_path),
               Row("new_path", f, 0, 0, files[f].new_path),
               Row("header_blank", f, 0, 0, <<>>) >>
         \o HunksRowTable(files[f], f, 1)
         \o FilesRowTable(files, f + 1)

RowTable(files) == FilesRowTable(files, 1)

\* the line number a Line-level context carries for a content line
SideNumber(line) ==
    IF line.line_type = "Added" THEN line.new_line_num[1]
    ELSE IF line.line_type = "Removed" THEN line.old_line_num[1]
    ELSE IF line.new_line_num # None THEN line.new_line_num[1]
    ELSE line.old_line_num[1]

\* what detect_comment_context has to return on row r of the table
ClassifiedAsRow(files, r) ==
    LET rows == RowTable(files)
        ctx == DetectCommentContext(files, r)
    IN IF r >= Len(rows) THEN ctx = FileContext
       ELSE LET row == rows[r + 1]
            IN IF row.kind \in {"separator", "old_path", "new_path", "header_blank"}
               THEN ctx.level = "File"
               ELSE IF row.kind \in {"hunk_header", "expand_above", "expand_below"}
               THEN /\ ctx.level = "Hunk"
                    /\ ctx.hunk_header = Some(files[row.file].hunks[row.hunk].header)
               ELSE IF row.kind = "line"
               THEN LET line == files[row.file].hunks[row.hunk].lines[row.line]
                    IN /\ ctx.level = "Line"
                       /\ ctx.line_number = Some(SideNumber(line))
                       /\ ctx.line_type = Some(line.line_type)
               ELSE TRUE

\* the kinds of the rows of the current diff under the cursor
CursorRowKind ==
    IF cursor_line < Len(RowTable(current_files))
    THEN RowTable(current_files)[cursor_line + 1].kind
    ELSE "beyond"

\* C5: detect_comment_context returns File level on separator and file-header
\* rows, Hunk level with the hunk's header on the hunk-header row and on the
\* expand-button rows, Line level with the side-dependent number and the line
\* type on content lines, and File level without location beyond all content
\* or without files - for the cursor row and for every other row of the diff.
C5_DetectCommentContext ==
    /\ ClassifiedAsRow(current_files, cursor_line)
    /\ \A r \in 0..(Len(RowTable(current_files)) + 1) : ClassifiedAsRow(current_files, r)

\* the cursor was scrolled onto a Removed line of the second file of a
\* two-file diff, whose number is read from the old side
C5_Witness ==
    /\ last_call.op = "scroll"
    /\ Len(current_files) = 2
    /\ CursorRowKind = "line"
    /\ LET row == RowTable(current_files)[cursor_line + 1]
       IN /\ row.file = 2
          /\ current_files[2].hunks[row.hunk].lines[row.line].line_type = "Removed"
          /\ DetectCommentContext(current_files, cursor_line).level = "Line"

\* TRUE when the byte string q occurs in hay at byte offset p
OccursAt(hay, q, p) == p + Len(q) <= Len(hay) /\ SubSeq(hay, p + 1, p + Len(q)) = q

\* C6: the row under which execute_search searches an old path, a new path, a
\* hunk header or a content line is the row at which detect_comment_context
\* sees that file header, hunk header or content line, and lies below the total
\* of calculate_content_lines; every match recorded by execute_search lies on
\* such a row, at an occurrence of the query.
C6_SharedRowNumbering ==
    /\ \A t \in 1..Len(SearchTargets(current_files)) :
          LET target == SearchTargets(current_files)[t]
              ctx == DetectCommentContext(current_files, target.line_index)
          IN /\ target.line_index < CalculateContentLines(current_files)
             /\ target.kind \in {"old_path", "new_path"} => ctx.level = "File"
             /\ target.kind = "hunk_header" =>
                   /\ ctx.level = "Hunk"
                   /\ ctx.hunk_header
                        = Some(current_files[target.file].hunks[target.hunk].header)
             /\ target.kind = "line" =>
                   LET line == current_files[target.file].hunks[target.hunk]
                                  .lines[target.line]
                   IN /\ ctx.level = "Line"
                      /\ ctx.line_number = Some(SideNumber(line))
                      /\ ctx.line_type = Some(line.line_type)
    /\ (last_call = Call("execute_search", "Ok")) =>
          \A k \in 1..Len(search_matches) :
             \E t \in 1..Len(SearchTargets(current_files)) :
                /\ SearchTargets(current_files)[t].line_index = search_matches[k].line_index
                /\ OccursAt(Bytes(ToLowercase(SearchTargets(current_files)[t].text)),
                            Bytes(ToLowercase(search_query)),
                            search_matches[k].char_start)

\* execute_search recorded matches in the first file, in an old path of the
\* second file and on content lines of the second file
C6_Witness ==
    /\ last_call = Call("execute_search", "Ok")
    /\ Len(current_files) = 2
    /\ \E k \in 1..Len(search_matches) :
          /\ CursorRowKind = "line"
          /\ RowTable(current_files)[search_matches[k].line_index + 1].kind = "old_path"
          /\ RowTable(current_files)[search_matches[k].line_index + 1].file = 2
    /\ \E k \in 1..Len(search_matches) :
          /\ RowTable(current_files)[search_matches[k].line_index + 1].kind = "line"
          /\ RowTable(current_files)[search_matches[k].line_index + 1].file = 2

\* the byte offsets from p on at which q occurs in hay, ascending
RECURSIVE ColumnsFrom(_, _, _)
ColumnsFrom(hay, q, p) ==
    IF p + Len(q) > Len(hay) THEN <<>>
    ELSE (IF OccursAt(hay, q, p) THEN <<p>> ELSE <<>>) \o ColumnsFrom(hay, q, p + 1)

\* one match per occurrence of q in the rows from r on, by row and then by column
RECURSIVE ExpectedFrom(_, _, _)
ExpectedFrom(rows, r, q) ==
    IF r > Len(rows) THEN <<>>
    ELSE (IF rows[r].kind \in {"old_path", "new_path", "hunk_header", "line"}
          THEN LET cols == ColumnsFrom(Bytes(ToLowercase(rows[r].text)), q, 0)
               IN [k \in 1..Len(cols) |-> SearchMatch(r - 1, cols[k], cols[k] + Len(q))]
          ELSE <<>>)
         \o ExpectedFrom(rows, r + 1, q)

ExpectedMatches(files, query) == ExpectedFrom(RowTable(files), 1, Bytes(ToLowercase(query)))

\* C7: for a non-empty query execute_search returns, and search_matches holds
\* exactly one match per (row, column) at which the lower-cased query occurs in
\* a lower-cased path, hunk header or line content of the current diff,
\* overlapping occurrences included, by row and then by column, with
\* char_end = char_start + length of the query (columns counted in bytes).
C7_SearchExact ==
    (last_call.op = "execute_search" /\ search_query # <<>>) =>
        /\ last_call.result = "Ok"
        /\ search_matches = ExpectedMatches(current_files, search_query)

\* C8: with n >= 1 matches next_match moves current_match_index from i to
\* (i+1) mod n and prev_match from i to (i-1) mod n, and both set cursor_line to
\* the row of the match selected; current_match_index is always absent or a
\* valid index into search_matches.
C8_SearchNavigationWraps ==
    /\ [](current_match_index = None \/ current_match_index[1] < Len(search_matches))
    /\ [][(last_call'.op = "next_match" /\ search_matches # <<>>
              /\ current_match_index # None) =>
             /\ current_match_index'
                  = Some((current_match_index[1] + 1) % Len(search_matches))
             /\ cursor_line' = search_matches[current_match_index'[1] + 1].line_index]_vars
    /\ [][(last_call'.op = "prev_match" /\ search_matches # <<>>
              /\ current_match_index # None) =>
             /\ current_match_index'
                  = Some((current_match_index[1] + Len(search_matches) - 1)
                            % Len(search_matches))
             /\ cursor_line' = search_matches[current_match_index'[1] + 1].line_index]_vars

\* next_match has just wrapped from the last of three or more matches to the first
C8_Witness ==
    /\ last_call.op = "next_match"
    /\ Len(search_matches) >= 3
    /\ current_match_index = Some(0)
    /\ cursor_line = search_matches[1].line_index

-----------------------------------------------------------------------------
(* The comment operations of src/app/comments.rs.                            *)

\* the number of comments held in memory over all commits that save_comment
\* is explored up to
MaxComments == 2

\* the characters typed into the comment dialog
DraftChars == {" ", "x"}

\* the comments of the commits from position i on that are held in memory
RECURSIVE CountComments(_)
CountComments(i) ==
    IF i > Len(Commits) THEN 0
    ELSE (IF IsSome(comments_by_commit[Commits[i]])
          THEN Len(Unwrap(comments_by_commit[Commits[i]]).comments) ELSE 0)
         + CountComments(i + 1)

TotalComments == CountComments(1)

\* App::start_comment_creation
StartCommentCreation ==
    /\ Running
    /\ IF IsSome(SelectedFile)
       THEN LET ctx == DetectCommentContext(current_files, cursor_line)
            IN /\ comment_mode' = [mode |-> "Creating", level |-> ctx.level,
                                   file_path |-> Unwrap(SelectedFile).new_path,
                                   line_number |-> ctx.line_number,
                                   line_type |-> ctx.line_type,
                                   hunk_header |-> ctx.hunk_header]
               /\ comment_draft' = <<>>
               /\ UNCHANGED status_message
       ELSE /\ status_message' = Status("No file selected", 0, 0, <<>>)
            /\ UNCHANGED <<comment_mode, comment_draft>>
    /\ last_call' = Call("start_comment_creation", "Ok")
    /\ UNCHANGED <<fn_call, repo_notes, parseVars, sbsVars, app_pc, viewVars, searchVars, comments_by_commit,
                   notes>>

\* comment_dialog::handle_key: a character typed into the draft, or Backspace
DialogKey ==
    /\ Running
    /\ comment_mode.mode = "Creating"
    /\ \/ /\ comment_draft = <<>>
          /\ \E c \in DraftChars : comment_draft' = Append(comment_draft, c)
       \/ /\ comment_draft # <<>>
          /\ comment_draft' = SubSeq(comment_draft, 1, Len(comment_draft) - 1)
    /\ last_call' = Call("handle_key", "Ok")
    /\ UNCHANGED <<fn_call, repo_notes, parseVars, sbsVars, app_pc, viewVars, searchVars, comment_mode,
                   comments_by_commit, notes, status_message>>

\* save_comment: the Comment built from the Creating mode, None when a field
\* the level needs is missing
DraftedComment(mode, draft) ==
    IF mode.level = "Line"
    THEN IF IsSome(mode.line_number) /\ IsSome(mode.line_type)
         THEN Some(NewLineComment(mode.file_path, Unwrap(mode.line_number),
                                  Unwrap(mode.line_type), draft))
         ELSE None
    ELSE IF mode.level = "Hunk"
    THEN IF IsSome(mode.hunk_header)
         THEN Some(NewHunkComment(mode.file_path, Unwrap(mode.hunk_header), draft))
         ELSE None
    ELSE Some(NewFileComment(mode.file_path, draft))

\* App::save_comment
SaveComment ==
    /\ Running
    /\ IF comment_mode.mode # "Creating"
       THEN /\ last_call' = Call("save_comment", "Ok")
            /\ UNCHANGED <<commentVars, status_message>>
       ELSE IF Trim(comment_draft) = <<>>
       THEN /\ status_message' = Status("Comment cannot be empty", 0, 0, <<>>)
            /\ last_call' = Call("save_comment", "Ok")
            /\ UNCHANGED commentVars
       ELSE IF ~IsSome(DraftedComment(comment_mode, comment_draft))
       THEN /\ last_call' = Call("save_comment", "Err")
            /\ UNCHANGED <<commentVars, status_message>>
       ELSE IF ~IsSome(SelectedCommit)
       THEN /\ comment_mode' = [mode |-> "Normal"]
            /\ comment_draft' = <<>>
            /\ last_call' = Call("save_comment", "Ok")
            /\ UNCHANGED <<comments_by_commit, notes, status_message>>
       ELSE /\ TotalComments < MaxComments
            /\ LET cid == Unwrap(SelectedCommit)
                   cc == AddComment(UnwrapOr(comments_by_commit[cid],
                                             NewCommitComments(cid, CurrentBranch)),
                                    Unwrap(DraftedComment(comment_mode, comment_draft)))
               IN /\ comments_by_commit' = [comments_by_commit EXCEPT ![cid] = Some(cc)]
                  /\ \E io_ok \in BOOLEAN :
                        LET written == WriteComments(notes, cid, cc, io_ok)
                        IN /\ notes' = written.store
                           /\ IF written.ok
                              THEN /\ status_message' = Status("Comment saved", 0, 0, <<>>)
                                   /\ comment_mode' = [mode |-> "Normal"]
                                   /\ comment_draft' = <<>>
                                   /\ last_call' = Call("save_comment", "Ok")
                              ELSE /\ last_call' = Call("save_comment", "Err")
                                   /\ UNCHANGED <<status_message, comment_mode,
                                                  comment_draft>>
    /\ UNCHANGED <<fn_call, repo_notes, parseVars, sbsVars, app_pc, viewVars, searchVars>>

\* App::cancel_comment
CancelComment ==
    /\ Running
    /\ comment_mode' = [mode |-> "Normal"]
    /\ comment_draft' = <<>>
    /\ last_call' = Call("cancel_comment", "Ok")
    /\ UNCHANGED <<fn_call, repo_notes, parseVars, sbsVars, app_pc, viewVars, searchVars, comments_by_commit,
                   notes, status_message>>

\* view_comments_at_current_location: the comments collected for the dialog
CommentsAtLocation(cc, file, ctx) ==
    (IF ctx.level = "Line" /\ IsSome(ctx.line_number) /\ IsSome(ctx.line_type)
     THEN CommentsAtLine(cc, file.new_path, Unwrap(ctx.line_number), Unwrap(ctx.line_type))
     ELSE <<>>)
    \o (IF ctx.level \in {"Hunk", "Line"} /\ IsSome(ctx.hunk_header)
        THEN CommentsAtHunk(cc, file.new_path, Unwrap(ctx.hunk_header))
        ELSE <<>>)
    \o FileLevelComments(cc, file.new_path)

\* App::view_comments_at_current_location
ViewCommentsAtCurrentLocation ==
    /\ Running
    /\ IF IsSome(SelectedFile)
       THEN IF IsSome(SelectedCommit) /\ IsSome(comments_by_commit[Unwrap(SelectedCommit)])
            THEN LET all_comments ==
                         CommentsAtLocation(
                             Unwrap(comments_by_commit[Unwrap(SelectedCommit)]),
                             Unwrap(SelectedFile),
                             DetectCommentContext(current_files, cursor_line))
                 IN IF all_comments # <<>>
                    THEN /\ comment_mode' = [mode |-> "ViewingComments",
                                             comments |-> all_comments]
                         /\ UNCHANGED status_message
                    ELSE /\ status_message' =
                                Status("No comments at this location", 0, 0, <<>>)
                         /\ UNCHANGED comment_mode
            ELSE /\ status_message' = Status("No comments for this commit", 0, 0, <<>>)
                 /\ UNCHANGED comment_mode
       ELSE UNCHANGED <<comment_mode, status_message>>
    /\ last_call' = Call("view_comments_at_current_location", "Ok")
    /\ UNCHANGED <<fn_call, repo_notes, parseVars, sbsVars, app_pc, viewVars, searchVars, comment_draft,
                   comments_by_commit, notes>>

\* a variant of FileCommentIndices that does not filter by file
FileCommentIndices_All(cc, file_path) == [k \in 1..Len(cc.comments) |-> k - 1]

\* delete_comment_at_index: the indices (from 0) of the comments of cc on file_path
FileCommentIndices(cc, file_path) ==
    LET Keep(i) == cc.comments[i + 1].file_path = file_path
    IN SelectSeq([k \in 1..Len(cc.comments) |-> k - 1], Keep)

\* App::delete_comment_at_index
DeleteCommentAtIndex ==
    /\ Running
    /\ \E index \in 0..MaxComments :
          IF /\ IsSome(SelectedFile)
             /\ IsSome(SelectedCommit)
             /\ IsSome(comments_by_commit[Unwrap(SelectedCommit)])
             /\ index < Len(FileCommentIndices(
                                Unwrap(comments_by_commit[Unwrap(SelectedCommit)]),
                                Unwrap(SelectedFile).new_path))
          THEN LET cid == Unwrap(SelectedCommit)
                   before == Unwrap(comments_by_commit[cid])
                   actual_idx ==
                       FileCommentIndices(before, Unwrap(SelectedFile).new_path)[index + 1]
                   cc == RemoveComment(before, actual_idx).cc
               IN IF cc.comments = <<>>
                  THEN \E read_ok \in BOOLEAN, write_ok \in BOOLEAN :
                          LET deleted == NotesDeleteComment(notes, cid, 0, read_ok, write_ok)
                          IN /\ notes' = deleted.store
                             /\ IF deleted.ok
                                THEN /\ comments_by_commit' =
                                            [comments_by_commit EXCEPT ![cid] = None]
                                     /\ status_message' =
                                            Status("Comment deleted", 0, 0, <<>>)
                                     /\ comment_mode' = [mode |-> "Normal"]
                                     /\ last_call' = CallWith("delete_comment_at_index", index, "Ok")
                                ELSE /\ comments_by_commit' =
                                            [comments_by_commit EXCEPT ![cid] = Some(cc)]
                                     /\ last_call' = CallWith("delete_comment_at_index", index, "Err")
                                     /\ UNCHANGED <<status_message, comment_mode>>
                  ELSE \E io_ok \in BOOLEAN :
                          LET written == WriteComments(notes, cid, cc, io_ok)
                          IN /\ notes' = written.store
                             /\ comments_by_commit' =
                                    [comments_by_commit EXCEPT ![cid] = Some(cc)]
                             /\ IF written.ok
                                THEN /\ status_message' =
                                            Status("Comment deleted", 0, 0, <<>>)
                                     /\ comment_mode' = [mode |-> "Normal"]
                                     /\ last_call' = CallWith("delete_comment_at_index", index, "Ok")
                                ELSE /\ last_call' = CallWith("delete_comment_at_index", index, "Err")
                                     /\ UNCHANGED <<status_message, comment_mode>>
          ELSE /\ last_call' = CallWith("delete_comment_at_index", index, "Ok")
               /\ UNCHANGED <<comments_by_commit, notes, status_message, comment_mode>>
    /\ UNCHANGED <<fn_call, repo_notes, parseVars, sbsVars, app_pc, viewVars, searchVars, comment_draft>>

\* App::close_dialog
CloseDialog ==
    /\ Running
    /\ IF comment_mode.mode = "Normal" THEN UNCHANGED <<comment_mode, comment_draft>>
       ELSE IF comment_mode.mode = "Creating"
       THEN /\ comment_mode' = [mode |-> "Normal"]
            /\ comment_draft' = <<>>
       ELSE /\ comment_mode' = [mode |-> "Normal"]
            /\ UNCHANGED comment_draft
    /\ last_call' = Call("close_dialog", "Ok")
    /\ UNCHANGED <<fn_call, repo_notes, parseVars, sbsVars, app_pc, viewVars, searchVars, comments_by_commit,
                   notes, status_message>>

\* a note left on commit c2 by an earlier review session
EarlierNote ==
    ToJson(AddComment(NewCommitComments("c2", CurrentBranch),
                      NewFileComment(<<"h">>, <<"y">>)))

\* the application after App::new, in a repository without notes or with the
\* note of an earlier session
CommentsInit ==
    /\ ParserIdle
    /\ SbsIdle
    /\ sbs_file = None
    /\ AppNew
    /\ fn_call = None
    /\ repo_notes = <<>>
    /\ notes \in { [c \in CommitIds |-> None],
                   [c \in CommitIds |-> IF c = "c2" THEN Some(EarlierNote) ELSE None] }

\* TRUE when no comment dialog is open: the keys of the diff view reach App
\* only then, a dialog takes them otherwise (comment_dialog::handle_key)
NoDialog == comment_mode.mode = "Normal"

\* commenting the files of the first commit: switching files, and the comment
\* operations
NextComments ==
    \/ LoadComments
    \/ InitDiff
    \/ (NoDialog /\ NextFile)
    \/ (NoDialog /\ PreviousFile)
    \/ StartCommentCreation
    \/ DialogKey
    \/ SaveComment
    \/ CancelComment
    \/ ViewCommentsAtCurrentLocation
    \/ DeleteCommentAtIndex
    \/ CloseDialog

SpecComments == CommentsInit /\ [][NextComments]_vars

-----------------------------------------------------------------------------
(* Store consistency and the frame of deletion.                              *)

\* the note of commit cid holds exactly the collection held in memory, and is
\* absent exactly when the entry is absent
StoreConsistent(cid) ==
    IF comments_by_commit[cid] # None
    THEN notes[cid] # None /\ FromJson(notes[cid][1]) = comments_by_commit[cid][1]
    ELSE notes[cid] = None

\* C9: after every save_comment or delete_comment_at_index that changes the
\* comments in memory or in storage and returns Ok, the note persisted for the
\* selected commit holds exactly the in-memory collection of that commit (same
\* comments, same order, same text) and is absent exactly when the in-memory
\* entry is absent.
C9_StoreConsistency ==
    [][(/\ last_call'.op \in {"save_comment", "delete_comment_at_index"}
        /\ last_call'.result = "Ok"
        /\ (comments_by_commit' # comments_by_commit \/ notes' # notes))
          => StoreConsistent(Commits[selected_commit_index + 1])']_vars

\* the comments of a commit entry; none when the entry is absent
CommentsOf(entry) == IF entry = None THEN <<>> ELSE entry[1].comments

\* the positions (from 1) of the comments on file_path, in collection order
PositionsOnFile(comments, file_path) ==
    {p \in 1..Len(comments) : comments[p].file_path = file_path}

\* the position of the i-th (from 0) comment on file_path
NthOnFile(comments, file_path, i) ==
    CHOOSE p \in PositionsOnFile(comments, file_path) :
        Cardinality({q \in PositionsOnFile(comments, file_path) : q < p}) = i

\* the sequence without its element at position p
Without(s, p) == [k \in 1..(Len(s) - 1) |-> IF k < p THEN s[k] ELSE s[k + 1]]

C11_DeletionToEmpty ==
    [][(/\ last_call'.op = "delete_comment_at_index"
        /\ last_call'.result = "Ok"
        /\ comments_by_commit' # comments_by_commit)
          => LET cid == Commits[selected_commit_index + 1]
                 before == CommentsOf(comments_by_commit[cid])
                 read == ReadComments(notes', cid, TRUE)
             IN IF Len(before) = 1
                THEN comments_by_commit'[cid] = None /\ read.value = None
                ELSE /\ read.value # None
                     /\ read.value[1].comments = CommentsOf(comments_by_commit'[cid])]_vars

\* C12: when save_comment or delete_comment_at_index fails to persist and
\* reports the error, comments_by_commit is exactly what it was before the
\* operation started and the persisted notes are unchanged.
C12_FailureLeavesStateUnchanged ==
    [][(/\ last_call'.op \in {"save_comment", "delete_comment_at_index"}
        /\ last_call'.result = "Err")
          => /\ comments_by_commit' = comments_by_commit
             /\ notes' = notes]_vars

-----------------------------------------------------------------------------
(* Looking up the comments under the cursor.                                 *)

\* notes left on commit c1 by earlier review sessions: comments of all three
\* levels on the hunks and lines of its two files
LocatedNotes ==
    LET files == ParsedDiffOf("c1", default_context_lines)
        on_f == <<NewHunkComment(files[1].new_path, files[1].hunks[1].header, <<"y">>),
                  NewLineComment(files[1].new_path, 2, "Added", <<"x">>)>>
        on_g == <<NewFileComment(files[2].new_path, <<"x">>),
                  NewHunkComment(files[2].new_path, files[2].hunks[2].header, <<"y">>),
                  NewLineComment(files[2].new_path, 3, "Removed", <<"x">>)>>
    IN {ToJson([NewCommitComments("c1", CurrentBranch) EXCEPT !.comments = on_f]),
        ToJson([NewCommitComments("c1", CurrentBranch) EXCEPT !.comments = on_g])}

\* the application after App::new in a repository holding one of these notes
LocateInit ==
    /\ ParserIdle
    /\ SbsIdle
    /\ sbs_file = None
    /\ AppNew
    /\ fn_call = None
    /\ repo_notes = <<>>
    /\ \E note \in LocatedNotes :
          notes = [c \in CommitIds |-> IF c = "c1" THEN Some(note) ELSE None]

\* moving the cursor over the diff of the first commit and opening the comments
\* under it
NextLocate ==
    \/ LoadComments
    \/ InitDiff
    \/ (NoDialog /\ Scroll)
    \/ (NoDialog /\ NextFile)
    \/ (NoDialog /\ PreviousFile)
    \/ ViewCommentsAtCurrentLocation
    \/ CloseDialog

SpecLocate == LocateInit /\ [][NextLocate]_vars

\* the comments of the collection on file path that are attached to row r of the
\* diff: for a content line, those of the line, of its hunk and of the file; for
\* a hunk-header or expand row, those of the hunk and of the file
AttachedToRow(comments, path, files, r) ==
    LET row == RowTable(files)[r + 1]
        hunk == files[row.file].hunks[row.hunk]
        on_path == {comments[k] : k \in {j \in 1..Len(comments) : comments[j].file_path = path}}
        of_file == {c \in on_path : c.location.variant = "File"}
        of_hunk == {c \in on_path : c.location.variant = "Hunk"
                                      /\ c.location.header = hunk.header}
        of_line == {c \in on_path : /\ c.location.variant = "Line"
                                    /\ c.location.number = SideNumber(hunk.lines[row.line])
                                    /\ c.location.kind = hunk.lines[row.line].line_type}
    IN IF row.kind = "line" THEN of_line \cup of_hunk \cup of_file
       ELSE of_hunk \cup of_file

\* C13: view_comments_at_current_location, with a selected file and a collection
\* for the selected commit, shows the line-level comments of the cursor's line,
\* the hunk-level comments of that line's hunk and the file-level comments of the
\* selected file when the cursor is on a content line; the hunk-level comments of
\* the hunk and the file-level comments when it is on a hunk-header or expand
\* row; when there are none, comment_mode stays and only the status is set.
C13_CommentsAtCursor ==
    [][(/\ last_call'.op = "view_comments_at_current_location"
        /\ selected_file_index < Len(current_files)
        /\ comments_by_commit[Commits[selected_commit_index + 1]] # None
        /\ CursorRowKind \in {"line", "hunk_header", "expand_above", "expand_below"})
          => LET expected ==
                     AttachedToRow(
                         comments_by_commit[Commits[selected_commit_index + 1]][1].comments,
                         current_files[selected_file_index + 1].new_path,
                         current_files, cursor_line)
             IN IF expected = {}
                THEN /\ comment_mode' = comment_mode
                     /\ status_message' = Status("No comments at this location", 0, 0, <<>>)
                ELSE /\ comment_mode'.mode = "ViewingComments"
                     /\ {comment_mode'.comments[k] : k \in 1..Len(comment_mode'.comments)}
                          = expected]_vars

-----------------------------------------------------------------------------
(* git/notes.rs: the notes ref of a branch.                                  *)

\* 'a'..='z' | 'A'..='Z' | '0'..='9' | '_' | '.'
RefSafeChars ==
    {"a", "b", "c", "d", "e", "f", "g", "h", "i", "j", "k", "l", "m", "n", "o", "p", "q",
     "r", "s", "t", "u", "v", "w", "x", "y", "z",
     "A", "B", "C", "D", "E", "F", "G", "H", "I", "J", "K", "L", "M", "N", "O", "P", "Q",
     "R", "S", "T", "U", "V", "W", "X", "Y", "Z",
     "0", "1", "2", "3", "4", "5", "6", "7", "8", "9", "_", "."}

\* a variant of SanitizeChar that treats the backslash like any other character
SanitizeChar_BackslashOther(c) ==
    IF c \in RefSafeChars THEN c
    ELSE IF c \in {"/", "-", " "} THEN "-"
    ELSE "_"

\* branch_ref_name: the match inside .map(|c| ...)
SanitizeChar(c) ==
    IF c \in RefSafeChars THEN c
    ELSE IF c \in {"/", "-", "\\", " "} THEN "-"
    ELSE "_"

\* TRUE when the string contains p
Contains(s, p) == \E i \in 0..(Len(s) - Len(p)) : SubSeq(s, i + 1, i + Len(p)) = p

\* [&str]::join(sep)
RECURSIVE Join(_, _)
Join(parts, sep) ==
    IF parts = <<>> THEN <<>>
    ELSE IF Len(parts) = 1 THEN parts[1]
    ELSE parts[1] \o sep \o Join(Tail(parts), sep)

\* the longest sanitized name branch_ref_name accepts, in bytes
SanitizedLimit == 200

NOTES_REF_PREFIX == <<"r", "e", "f", "s", "/", "n", "o", "t", "e", "s", "/", "g", "i", "t", "-", "r", "e", "v", "i", "e", "w", "/">>

\* branch_ref_name: Some(ref) for Ok(ref), None for Err(_)
BranchRefName(branch) ==
    IF branch = <<>> THEN None
    ELSE IF StartsWith(branch, <<"-">>) \/ EndsWith(branch, <<"-">>) THEN None
    ELSE IF StartsWith(branch, <<".">>) \/ EndsWith(branch, <<".">>) THEN None
    ELSE IF Contains(branch, <<".", ".">>) THEN None
    ELSE LET mapped == [i \in 1..Len(branch) |-> SanitizeChar(branch[i])]
             NonEmpty(part) == part # <<>>
             sanitized == Join(SelectSeq(Split(mapped, "-"), NonEmpty), <<"-">>)
         IN IF Len(sanitized) > SanitizedLimit THEN None
            ELSE IF sanitized = <<>> THEN None
            ELSE Some(NOTES_REF_PREFIX \o sanitized)

\* the longest branch name enumerated character by character
MaxBranchLen == 3

\* a letter, a digit, the characters with a role of their own, and a non-ASCII
\* letter
BranchChars == {"a", "7", "_", ".", "/", "-", "\\", " ", "E2"}

\* unit repeated n times
Repeat(unit, n) == [i \in 1..(n * Len(unit)) |-> unit[((i - 1) % Len(unit)) + 1]]

\* the branch names given to branch_ref_name: every short name, the names of
\* test_branch_ref_name, and names around the length limit
BranchNames ==
    UNION {[1..n -> BranchChars] : n \in 0..MaxBranchLen}
      \cup {<<"m", "a", "i", "n">>, <<"f", "e", "a", "t", "u", "r", "e", "/", "t", "e", "s", "t">>, <<"f", "e", "a", "t", "\\", "t", "e", "s", "t">>}
      \cup {Repeat(<<"a">>, SanitizedLimit), Repeat(<<"a">>, SanitizedLimit + 1),
            <<"/", "/">> \o Repeat(<<"a">>, SanitizedLimit),
            Repeat(<<"a">>, SanitizedLimit \div 2) \o <<" ">>
                \o Repeat(<<"a">>, SanitizedLimit \div 2),
            Repeat(<<"a">>, SanitizedLimit \div 2) \o <<"/", "-", "\\">>
                \o Repeat(<<"a">>, SanitizedLimit \div 2 - 1)}

\* a call of a free function that has not returned yet
Calling(fn, arg) == Some([fn |-> fn, arg |-> arg, returned |-> FALSE, result |-> None])

BranchInit ==
    /\ ParserIdle
    /\ SbsIdle
    /\ sbs_file = None
    /\ AppNew
    /\ notes = [c \in CommitIds |-> None]
    /\ \E branch \in BranchNames : fn_call = Calling("branch_ref_name", branch)
    /\ repo_notes = <<>>

\* branch_ref_name(branch) returns
BranchRef ==
    /\ fn_call # None
    /\ fn_call[1].fn = "branch_ref_name"
    /\ ~fn_call[1].returned
    /\ fn_call' = Some([fn_call[1] EXCEPT !.returned = TRUE,
                                          !.result = BranchRefName(fn_call[1].arg)])
    /\ UNCHANGED <<parseVars, sbsVars, appVars, repo_notes>>

NextBranch == BranchRef

SpecBranch == BranchInit /\ [][NextBranch]_vars

\* the name after the character mapping, with only the first '-' of every run
\* kept, and no '-' kept before the first or after the last other character
CleanName(branch) ==
    LET mapped == [i \in 1..Len(branch) |->
                      IF branch[i] \in RefSafeChars THEN branch[i]
                      ELSE IF branch[i] \in {"/", "-", "\\", " "} THEN "-"
                      ELSE "_"]
        Kept(i) == \/ mapped[i] # "-"
                   \/ /\ i > 1
                      /\ mapped[i - 1] # "-"
                      /\ \E j \in (i + 1)..Len(mapped) : mapped[j] # "-"
        IsKept(pair) == pair[2]
        kept == SelectSeq([i \in 1..Len(mapped) |-> <<mapped[i], Kept(i)>>], IsKept)
    IN [k \in 1..Len(kept) |-> kept[k][1]]

\* the names rejected before sanitization
RejectedName(branch) ==
    \/ branch = <<>>
    \/ branch[1] \in {"-", "."}
    \/ branch[Len(branch)] \in {"-", "."}
    \/ \E i \in 1..(Len(branch) - 1) : branch[i] = "." /\ branch[i + 1] = "."

\* C14: branch_ref_name rejects the empty name, names starting or ending with
\* '-' or '.', names containing "..", and names whose sanitized form is empty or
\* longer than 200 bytes; otherwise it returns "refs/notes/git-review/" followed
\* by the name with letters, digits, '_' and '.' kept, '/', '-', backslash and
\* space turned into '-', any other character into '_', runs of '-' collapsed
\* and leading and trailing '-' stripped.  "feature/test" gives "feature-test",
\* "feat\test" gives "feat-test" and ".." is rejected.
C14_BranchRefName ==
    (fn_call # None /\ fn_call[1].fn = "branch_ref_name" /\ fn_call[1].returned) =>
        LET branch == fn_call[1].arg
            result == fn_call[1].result
        IN /\ IF \/ RejectedName(branch)
                 \/ CleanName(branch) = <<>>
                 \/ Len(CleanName(branch)) > SanitizedLimit
              THEN result = None
              ELSE result = Some(NOTES_REF_PREFIX \o CleanName(branch))
           /\ branch = <<"f", "e", "a", "t", "u", "r", "e", "/", "t", "e", "s", "t">>
                => result = Some(NOTES_REF_PREFIX \o <<"f", "e", "a", "t", "u", "r", "e", "-", "t", "e", "s", "t">>)
           /\ branch = <<"f", "e", "a", "t", "\\", "t", "e", "s", "t">>
                => result = Some(NOTES_REF_PREFIX \o <<"f", "e", "a", "t", "-", "t", "e", "s", "t">>)
           /\ branch = <<".", ".">> => result = None

\* branch_ref_name has returned the ref of "feat\test"
C14_Witness ==
    /\ fn_call # None
    /\ fn_call[1].fn = "branch_ref_name"
    /\ fn_call[1].returned
    /\ fn_call[1].arg = <<"f", "e", "a", "t", "\\", "t", "e", "s", "t">>
    /\ fn_call[1].result = Some(NOTES_REF_PREFIX \o <<"f", "e", "a", "t", "-", "t", "e", "s", "t">>)

-----------------------------------------------------------------------------
(* The context level and the view position across context changes.          *)

\* the files of a fresh load of commit index at the default context
FreshDefaultLoad(index) ==
    IF GenerateDiffText(Commits[index + 1], default_context_lines) # None
    THEN ParsedDiffOf(Commits[index + 1], default_context_lines)
    ELSE <<>>

\* C15: current_context_lines is the configured default plus a whole number of
\* context_expand_increment: it starts at the default, every expand_context
\* adds one increment, every reset_context and every commit switch
\* (next_commit, previous_commit, select_commit to another index) sets it back
\* to the default and leaves the files of a fresh load of the selected commit at
\* the default context, and no other operation changes it.
C15_ContextLevel ==
    /\ [](\E k \in 0..(MaxExpands + 1) :
             current_context_lines
               = default_context_lines + k * default_context_expand_increment)
    /\ [](app_pc \in {"new", "loaded"} => current_context_lines = default_context_lines)
    /\ [][IF last_call'.op = "expand_context"
          THEN current_context_lines'
                 = current_context_lines + default_context_expand_increment
          ELSE IF \/ last_call'.op = "reset_context"
                  \/ selected_commit_index' # selected_commit_index
          THEN /\ current_context_lines' = default_context_lines
               /\ current_files' = FreshDefaultLoad(selected_commit_index')
          ELSE current_context_lines' = current_context_lines]_vars

\* expand_context has been called twice in a row on the second commit
C15_Witness ==
    /\ last_call.op = "expand_context"
    /\ selected_commit_index = 1
    /\ current_context_lines = default_context_lines + 2 * default_context_expand_increment

\* C16: immediately after expand_context, reset_context or a commit switch both
\* scroll_offset and cursor_line are 0.
C16_ViewPositionReset ==
    [][(\/ last_call'.op \in {"expand_context", "reset_context"}
        \/ selected_commit_index' # selected_commit_index)
          => scroll_offset' = 0 /\ cursor_line' = 0]_vars

-----------------------------------------------------------------------------
(* The diff on screen.                                                       *)

\* C17: once init_diff has run, current_files is the parse of the diff generated
\* for the selected commit at current_context_lines, or empty when that diff
\* cannot be produced; the session goes on after such a failure: next_commit
\* and previous_commit still move the selection, and the diff of the commit
\* moved to is loaded.
C17_CurrentDiffConsistency ==
    /\ [](app_pc = "running" =>
            LET text == GenerateDiffText(Commits[selected_commit_index + 1],
                                         current_context_lines)
            IN current_files = IF text # None THEN ParseDiff(text[1]) ELSE <<>>)
    /\ [][(app_pc = "running" /\ last_call'.op = "previous_commit"
             /\ selected_commit_index > 0)
            => selected_commit_index' = selected_commit_index - 1
                 /\ app_pc' = "running"]_vars
    /\ [][(app_pc = "running" /\ last_call'.op = "next_commit"
             /\ selected_commit_index + 1 < Len(Commits))
            => selected_commit_index' = selected_commit_index + 1
                 /\ app_pc' = "running"]_vars

\* previous_commit has moved from the third commit, whose diff cannot be
\* generated, to the second, whose diff is on screen
C17_Witness ==
    /\ last_call.op = "previous_commit"
    /\ selected_commit_index = 1
    /\ GenerateDiffText(Commits[3], default_context_lines) = None
    /\ current_files # <<>>
    /\ current_files = ParseDiff(DiffC2Default)

-----------------------------------------------------------------------------
(* The files and hunks parse_diff returns.                                   *)

\* C18: every FileDiff returned by parse_diff that has at least one hunk has
\* new_file_lines = Some(new_start + new_lines of its last hunk), wherever the
\* file stands in the diff; a FileDiff without hunks has new_file_lines = None.
C18_NewFileLines ==
    p_pc = "done" =>
        \A f \in 1..Len(p_files) :
            LET file == p_files[f]
                last == file.hunks[Len(file.hunks)]
            IN IF file.hunks # <<>>
               THEN file.new_file_lines = Some(last.new_start + last.new_lines)
               ELSE file.new_file_lines = None

\* the hunks of the returned files
ReturnedHunks ==
    {p_files[f].hunks[h] : <<f, h>> \in
        {x \in (1..Len(p_files)) \X (1..MaxLines) : x[2] <= Len(p_files[x[1]].hunks)}}

\* the lines of the hunk that have a number on the given side, in order
SideLines(hunk, types) ==
    LET OnSide(line) == line.line_type \in types IN SelectSeq(hunk.lines, OnSide)

\* the line numbering of one hunk
NumberedFrom(hunk) ==
    /\ \A i \in 1..Len(hunk.lines) :
          LET line == hunk.lines[i]
          IN /\ line.line_type = "Added"
                  => line.new_line_num # None /\ line.old_line_num = None
             /\ line.line_type = "Removed"
                  => line.old_line_num # None /\ line.new_line_num = None
             /\ line.line_type = "Context"
                  => line.old_line_num # None /\ line.new_line_num # None
    /\ LET old_side == SideLines(hunk, {"Context", "Removed"})
       IN \A k \in 1..Len(old_side) : old_side[k].old_line_num = Some(hunk.old_start + k - 1)
    /\ LET new_side == SideLines(hunk, {"Context", "Added"})
       IN \A k \in 1..Len(new_side) : new_side[k].new_line_num = Some(hunk.new_start + k - 1)

\* C20: in every hunk parse_diff produces (returned in a file, or still open
\* while the text is read) an Added line has only a new-side number, a Removed
\* line only an old-side number, a Context line both; the old-side numbers of
\* the Context and Removed lines are old_start, old_start+1, ... in order and
\* the new-side numbers of the Context and Added lines are new_start,
\* new_start+1, ... in order.
C20_LineNumbering ==
    /\ p_pc = "done" => \A hunk \in ReturnedHunks : NumberedFrom(hunk)
    /\ (p_pc = "scan" /\ p_state.current_hunk # None) => NumberedFrom(p_state.current_hunk[1])

\* parse_diff has returned a hunk starting at line 3 with a removed line
\* followed by an added line
C20_Witness ==
    /\ p_pc = "done"
    /\ \E hunk \in ReturnedHunks :
          /\ hunk.new_start = 3
          /\ Len(hunk.lines) = 2
          /\ hunk.lines[1].line_type = "Removed"
          /\ hunk.lines[2].line_type = "Added"
          /\ hunk.lines[2].new_line_num = Some(3)

-----------------------------------------------------------------------------
(* git/commits.rs: the --range argument.                                     *)

\* str::split(p).collect() for a pattern p of one or more characters
RECURSIVE SplitStr(_, _)
SplitStr(s, p) ==
    IF Contains(s, p)
    THEN LET i == CHOOSE k \in 0..(Len(s) - Len(p)) :
                      /\ SubSeq(s, k + 1, k + Len(p)) = p
                      /\ \A j \in 0..(k - 1) : SubSeq(s, j + 1, j + Len(p)) # p
         IN <<SubSeq(s, 1, i)>> \o SplitStr(Drop(s, i + Len(p)), p)
    ELSE <<s>>

\* parse_range: Some(<<start, end>>) for Ok((start, end)), None for Err(_)
ParseRange(range) ==
    IF Contains(range, <<".", ".">>)
    THEN LET parts == SplitStr(range, <<".", ".">>)
         IN IF Len(parts) # 2 THEN None
            ELSE IF parts[1] = <<>> \/ parts[2] = <<>> THEN None
            ELSE Some(<<parts[1], parts[2]>>)
    ELSE Some(<<<<"H", "E", "A", "D">>, range>>)

\* the longest --range value enumerated character by character
MaxRangeLen == 5

\* the --range values given to parse_range: every short string over two ref
\* characters and the dot, and the values of test_parse_range_function
Ranges ==
    UNION {[1..n -> {"a", "b", "."}] : n \in 0..MaxRangeLen}
      \cup {<<"H", "E", "A", "D", "~", "5", ".", ".", "H", "E", "A", "D">>, <<"o", "r", "i", "g", "i", "n", "/", "m", "a", "i", "n">>, <<".", ".", "H", "E", "A", "D">>, <<"H", "E", "A", "D", ".", ".">>}

RangeInit ==
    /\ ParserIdle
    /\ SbsIdle
    /\ sbs_file = None
    /\ AppNew
    /\ notes = [c \in CommitIds |-> None]
    /\ \E range \in Ranges : fn_call = Calling("parse_range", range)
    /\ repo_notes = <<>>

\* main: git::parse_range(&range) returns
ParseRangeCall ==
    /\ fn_call # None
    /\ fn_call[1].fn = "parse_range"
    /\ ~fn_call[1].returned
    /\ fn_call' = Some([fn_call[1] EXCEPT !.returned = TRUE,
                                          !.result = ParseRange(fn_call[1].arg)])
    /\ UNCHANGED <<parseVars, sbsVars, appVars, repo_notes>>

NextRange == ParseRangeCall

SpecRange == RangeInit /\ [][NextRange]_vars

\* C19: parse_range of a single ref R (no "..") returns (R, "HEAD"); of "A..B"
\* with non-empty A and B it returns (A, B); it returns an error when the start
\* or the end is empty or when there is more than one ".." separator.
C19_ParseRange ==
    (fn_call # None /\ fn_call[1].fn = "parse_range" /\ fn_call[1].returned) =>
        LET range == fn_call[1].arg
            result == fn_call[1].result
            parts == SplitStr(range, <<".", ".">>)
        IN IF Len(parts) = 1 THEN result = Some(<<range, <<"H", "E", "A", "D">>>>)
           ELSE IF Len(parts) = 2 /\ parts[1] # <<>> /\ parts[2] # <<>>
           THEN result = Some(<<parts[1], parts[2]>>)
           ELSE result = None

-----------------------------------------------------------------------------
(* Unparseable @@ headers.                                                   *)

\* the last `@@` or `diff --git` line of the input is an `@@` line whose body
\* has no space separator
DroppedHeaderLast(input) ==
    /\ LastMarker(input) > 0
    /\ StartsWith(input[LastMarker(input)], AT_AT)
    /\ ~HunkStarted(input)

\* every hunk the parser holds: in the finished files, in the open file, open
HeldHunks(st) ==
    [files |-> [f \in 1..Len(st.files) |-> st.files[f].hunks],
     current_file |-> IF IsSome(st.current_file) THEN Unwrap(st.current_file).hunks ELSE <<>>,
     current_hunk |-> st.current_hunk]

\* C21: parse_diff does not fail; an @@ line whose body has no space separator
\* starts no hunk, the hunk that was open before it is pushed to its file, and
\* the content lines that follow it, up to the next @@ or diff --git line, are
\* added to no hunk.
C21_DroppedHeader ==
    [][(p_pc = "scan" /\ p_input' # p_input) =>
         LET line == p_input'[Len(p_input')]
         IN /\ (StartsWith(line, AT_AT) /\ DroppedHeaderLast(p_input'))
                  => /\ p_state'.current_hunk \in {None, p_state.current_hunk}
                     /\ (IsSome(p_state.current_hunk) /\ IsSome(p_state.current_file))
                          => /\ p_state'.current_hunk = None
                             /\ Unwrap(p_state'.current_file).hunks
                                  = Append(Unwrap(p_state.current_file).hunks,
                                           Unwrap(p_state.current_hunk))
            /\ (DroppedHeaderLast(p_input) /\ ~IsMarker(line))
                  => HeldHunks(p_state') = HeldHunks(p_state)]_vars

-----------------------------------------------------------------------------
(* Which file a hunk belongs to.                                             *)

\* the positions of the `diff --git` lines of the input, in order
DiffGitPositions(input) ==
    LET IsDiffGit(i) == StartsWith(input[i], DIFF_GIT)
    IN SelectSeq([i \in 1..Len(input) |-> i], IsDiffGit)

\* the lines after the i-th `diff --git` line and before the next one
BlockOf(input, i) ==
    LET at == DiffGitPositions(input)
        last == IF i < Len(at) THEN at[i + 1] - 1 ELSE Len(input)
    IN SubSeq(input, at[i] + 1, last)

\* an `@@` line that starts a hunk: its body has a space separator
StartsHunk(line) ==
    /\ StartsWith(line, AT_AT)
    /\ IsSome(SplitOnce(Trim(TrimEndMatches(TrimStartMatches(line, AT_AT), AT_AT)), " "))

\* the header lines of the hunks of a file
HeadersOf(file) == [h \in 1..Len(file.hunks) |-> file.hunks[h].header]

\* C26: parse_diff returns one FileDiff per `diff --git` line, in source order,
\* and the hunks of the i-th FileDiff are those started by the @@ lines between
\* the i-th `diff --git` line and the next; a hunk that appears before the
\* first `diff --git` line is in no file.
C26_HunkAttribution ==
    p_pc = "done" =>
        /\ Len(p_files) = Len(DiffGitPositions(p_input))
        /\ \A i \in 1..Len(p_files) :
              HeadersOf(p_files[i]) = SelectSeq(BlockOf(p_input, i), StartsHunk)

-----------------------------------------------------------------------------
(* The notes ref as a ref name.                                              *)

\* a valid single component of a ref name, as the notes ref needs it
ValidRefComponent(name) ==
    /\ name # <<>>
    /\ Len(name) <= SanitizedLimit
    /\ \A i \in 1..Len(name) : name[i] \in RefSafeChars \cup {"-"}
    /\ ~Contains(name, <<".", ".">>)
    /\ ~Contains(name, <<"-", "-">>)
    /\ name[1] \notin {"-", "."}
    /\ name[Len(name)] \notin {"-", "."}

\* C22: for every branch name branch_ref_name accepts, what it appends to
\* "refs/notes/git-review/" is a valid ref-name component: not empty, at most
\* 200 bytes, made of letters, digits, '_', '.' and '-' only, without ".." and
\* without "--", and neither starting nor ending with '-' or '.'.
C22_ValidRefComponent ==
    (/\ fn_call # None
     /\ fn_call[1].fn = "branch_ref_name"
     /\ fn_call[1].returned
     /\ fn_call[1].result # None)
        => /\ StartsWith(Unwrap(fn_call[1].result), NOTES_REF_PREFIX)
           /\ ValidRefComponent(Drop(Unwrap(fn_call[1].result), Len(NOTES_REF_PREFIX)))

-----------------------------------------------------------------------------
(* Search matches and the diff they were computed on.                        *)

\* the match designates a row of the loaded diff whose lower-cased text holds
\* the lower-cased query at the bytes the match gives
MatchOnLoadedDiff(m, files, query) ==
    \E t \in 1..Len(SearchTargets(files)) :
        LET target == SearchTargets(files)[t]
            text == Bytes(ToLowercase(target.text))
        IN /\ target.line_index = m.line_index
           /\ m.char_end <= Len(text)
           /\ SubSeq(text, m.char_start + 1, m.char_end) = Bytes(ToLowercase(query))

\* C23: every match in search_matches designates a row and a column of the
\* diff that is loaded now at which the lower-cased query occurs; matches
\* computed on a diff that expand_context, reset_context or a commit switch
\* has replaced are not kept.
C23_MatchesFollowDiff ==
    (app_pc = "running" /\ search_mode = "Normal" /\ search_query # <<>>) =>
        \A k \in 1..Len(search_matches) :
            MatchOnLoadedDiff(search_matches[k], current_files, search_query)

-----------------------------------------------------------------------------
(* The width of the side-by-side rows.                                       *)

\* C24: every row create_side_by_side_lines returns (hunk header rows,
\* content rows, blank padding cells and the blank row after a hunk, in the
\* left and in the right column) has exactly max_width characters.
C24_ExactWidth ==
    SbsReturned =>
        LET out == Unwrap(sbs_out)
        IN /\ \A r \in 1..Len(out.left) : Len(out.left[r].text) = sbs_w.max_width
           /\ \A r \in 1..Len(out.right) : Len(out.right[r].text) = sbs_w.max_width

\* the four rows of a hunk of two removed lines and one added line, scrolled
\* by two columns in a column wider than the text: a header row, a pair of
\* content cells, a content cell beside a padding cell, and the blank row
C24_Witness ==
    /\ SbsReturned
    /\ FirstHunkTypes = <<"Removed", "Removed", "Added">>
    /\ sbs_w = [skip |-> 0, limit |-> 4, max_width |-> 12, horizontal_offset |-> 2]
    /\ Len(Unwrap(sbs_out).left) = 4
    /\ Unwrap(sbs_out).left[1].style = "context"
    /\ Unwrap(sbs_out).right[2].style = "added"
    /\ Unwrap(sbs_out).right[3] = BlankCell(12)
    /\ Unwrap(sbs_out).left[4] = BlankCell(12)
    /\ Unwrap(sbs_out).left[3].text
         = Spaces(3) \o <<"2", " ", "<", "y", "q">> \o Spaces(4)

-----------------------------------------------------------------------------
(* The file a new comment is attached to.                                    *)

\* no comment has been written in this session yet
FirstComment == TotalComments = 0

\* moving the cursor over the diff of the first commit and writing the first
\* comment of the session on the row under it
NextAttach ==
    \/ (FirstComment /\ LoadComments)
    \/ (FirstComment /\ InitDiff)
    \/ (FirstComment /\ NoDialog /\ Scroll)
    \/ (FirstComment /\ NoDialog /\ NextFile)
    \/ (FirstComment /\ NoDialog /\ PreviousFile)
    \/ (FirstComment /\ StartCommentCreation)
    \/ (FirstComment /\ DialogKey)
    \/ (FirstComment /\ SaveComment)
    \/ (FirstComment /\ CancelComment)

SpecAttach == ViewInit /\ [][NextAttach]_vars

\* the new_path of the file whose rows contain row r of the diff
PathOfRow(files, r) == files[RowTable(files)[r + 1].file].new_path

\* the row under the cursor is a hunk row or a content line of some file
CursorInHunk ==
    /\ cursor_line < Len(RowTable(current_files))
    /\ RowTable(current_files)[cursor_line + 1].kind
         \in {"hunk_header", "expand_above", "line", "expand_below"}

\* the comments held in memory for the selected commit
SelectedComments ==
    IF IsSome(SelectedCommit) /\ IsSome(comments_by_commit[Unwrap(SelectedCommit)])
    THEN Unwrap(comments_by_commit[Unwrap(SelectedCommit)]).comments
    ELSE <<>>

\* C25: a comment created by start_comment_creation and save_comment on a
\* line or a hunk carries the path of the file whose rows contain cursor_line,
\* for every cursor position of a diff with several files and every value of
\* selected_file_index.
C25_CommentAttribution ==
    [][/\ (/\ last_call'.op = "start_comment_creation"
           /\ comment_mode'.mode = "Creating"
           /\ CursorInHunk')
            => comment_mode'.file_path = PathOfRow(current_files', cursor_line')
       /\ (/\ last_call'.op = "save_comment"
           /\ TotalComments' > TotalComments
           /\ CursorInHunk')
            => SelectedComments'[Len(SelectedComments')].file_path
                  = PathOfRow(current_files', cursor_line')]_vars

-----------------------------------------------------------------------------
(* The view position and the size of the diff.                               *)

\* C27: in every state reached by scrolling, paging, file and commit
\* navigation, context changes and terminal resizes, cursor_line is the index
\* of an existing row of the diff (when the diff has a row) and scroll_offset
\* is at most max(0, rows - visible height), visible height being
\* terminal_height - 3.
C27_ViewPositionInBounds ==
    app_pc = "running" =>
        LET total == Len(RowTable(current_files))
        IN /\ total > 0 => cursor_line < total
           /\ scroll_offset <= Max(0, total - (terminal_height - 3))

-----------------------------------------------------------------------------
(* git/notes.rs called for several branches of one repository.               *)

\* notes::clear_branch_notes on the notes of one ref: Ok(0) when the ref does
\* not exist, otherwise the whole ref is deleted and the count returned
ClearBranchNotes(store, io_ok) ==
    LET noted == {c \in DOMAIN store : IsSome(store[c])}
    IN IF noted = {} THEN NotesResult(TRUE, store, 0)
       ELSE IF ~io_ok THEN NotesResult(FALSE, store, 0)
       ELSE NotesResult(TRUE, [c \in DOMAIN store |-> None], Cardinality(noted))

\* the branches reviewed in the repository: feature branches whose names
\* differ in one character, and a name that is rejected
ReviewedBranches ==
    {<<"a", "/", "b">>, <<"a", "-", "b">>, <<"a", "_", "b">>, <<"a", "b">>, <<"-", "a">>}

\* the commits the branches have in common
SharedCommits == {"c1", "c2"}

\* the notes refs of the reviewed branches
NotesRefs ==
    {Unwrap(BranchRefName(b)) : b \in {x \in ReviewedBranches : IsSome(BranchRefName(x))}}

\* the collection a review of the branch writes for the commit: one file comment
ReviewOf(branch, commit_oid) ==
    AddComment(NewCommitComments(commit_oid, branch), NewFileComment(<<"f">>, <<"x">>))

\* a returned call of a function of git/notes.rs
Returned(fn, branch, commit_oid, ok, value) ==
    Some([fn |-> fn, arg |-> [branch |-> branch, commit_oid |-> commit_oid],
          returned |-> TRUE, result |-> [ok |-> ok, value |-> value]])

\* a repository without notes
IsolationInit ==
    /\ ParserIdle
    /\ SbsIdle
    /\ sbs_file = None
    /\ AppNew
    /\ fn_call = None
    /\ notes = [c \in CommitIds |-> None]
    /\ repo_notes = [r \in NotesRefs |-> [c \in SharedCommits |-> None]]

\* the notes under the ref of the branch
NotesUnder(branch) == repo_notes[Unwrap(BranchRefName(branch))]

\* the part common to the functions of git/notes.rs: `branch_ref_name(branch)?`
\* returns the Err, otherwise r is the outcome of the operation on the notes
\* under the ref; no_value stands in the place of the value of an Err
OnBranchRef(fn, branch, commit_oid, r, no_value) ==
    IF ~IsSome(BranchRefName(branch))
    THEN /\ fn_call' = Returned(fn, branch, commit_oid, FALSE, no_value)
         /\ UNCHANGED repo_notes
    ELSE /\ repo_notes' = [repo_notes EXCEPT ![Unwrap(BranchRefName(branch))] = r.store]
         /\ fn_call' = Returned(fn, branch, commit_oid, r.ok, r.value)

\* notes::write_comments(repo, branch, commit_oid, comments)
WriteCommentsCall ==
    /\ \E branch \in ReviewedBranches, commit_oid \in SharedCommits, io_ok \in BOOLEAN :
          OnBranchRef("write_comments", branch, commit_oid,
                      WriteComments(NotesUnder(branch), commit_oid,
                                    ReviewOf(branch, commit_oid), io_ok),
                      FALSE)
    /\ UNCHANGED <<parseVars, sbsVars, appVars>>

\* notes::read_comments(repo, branch, commit_oid)
ReadCommentsCall ==
    /\ \E branch \in ReviewedBranches, commit_oid \in SharedCommits, io_ok \in BOOLEAN :
          OnBranchRef("read_comments", branch, commit_oid,
                      ReadComments(NotesUnder(branch), commit_oid, io_ok), None)
    /\ UNCHANGED <<parseVars, sbsVars, appVars>>

\* the notes under a ref, over all the commits of the repository
OverAllCommits(store) ==
    [c \in CommitIds |-> IF c \in DOMAIN store THEN store[c] ELSE None]

\* notes::read_all_for_branch(repo, branch)
ReadAllForBranchCall ==
    /\ \E branch \in ReviewedBranches, io_ok \in BOOLEAN :
          OnBranchRef("read_all_for_branch", branch, "",
                      [ReadAllForBranch(OverAllCommits(NotesUnder(branch)), io_ok)
                          EXCEPT !.store = NotesUnder(branch)],
                      {})
    /\ UNCHANGED <<parseVars, sbsVars, appVars>>

\* notes::clear_branch_notes(repo, branch)
ClearBranchNotesCall ==
    /\ \E branch \in ReviewedBranches, io_ok \in BOOLEAN :
          OnBranchRef("clear_branch_notes", branch, "",
                      ClearBranchNotes(NotesUnder(branch), io_ok), 0)
    /\ UNCHANGED <<parseVars, sbsVars, appVars>>

NextIsolation ==
    \/ WriteCommentsCall
    \/ ReadCommentsCall
    \/ ReadAllForBranchCall
    \/ ClearBranchNotesCall

SpecIsolation == IsolationInit /\ [][NextIsolation]_vars

\* the branch that wrote the note
WriterOf(note) == Unwrap(note).branch

\* C28: two different branch names that branch_ref_name accepts have different
\* notes refs, so that a call of write_comments or clear_branch_notes for one
\* branch replaces or removes only notes written for that branch, and
\* read_comments and read_all_for_branch return only collections written for
\* the branch they are called with.
C28_BranchIsolation ==
    [][Len(fn_call') > 0 =>
         LET call == fn_call'[1]
         IN /\ \A r \in DOMAIN repo_notes : \A c \in DOMAIN repo_notes[r] :
                  (IsSome(repo_notes[r][c]) /\ repo_notes'[r][c] # repo_notes[r][c])
                      => WriterOf(repo_notes[r][c]) = call.arg.branch
            /\ (call.fn = "read_comments" /\ call.result.ok /\ IsSome(call.result.value))
                  => Unwrap(call.result.value).branch = call.arg.branch
            /\ (call.fn = "read_all_for_branch" /\ call.result.ok)
                  => \A cc \in call.result.value : cc.branch = call.arg.branch]_vars

-----------------------------------------------------------------------------
(* Horizontal scrolling of one line.                                         *)

\* the longest content given to apply_horizontal_scroll
MaxContentLen == 3

\* the largest horizontal offset
MaxOffset == 4

\* the widest column
MaxWidth == 7

\* the contents scrolled: every string of two letters up to the longest
ScrolledContents == UNION {[1..n -> {"a", "b"}] : n \in 0..MaxContentLen}

\* a call of apply_horizontal_scroll, or of format_side_line on an added line
\* with that content, for a column of the renderer
ScrollInit ==
    /\ ParserIdle
    /\ SbsIdle
    /\ sbs_file = None
    /\ AppNew
    /\ notes = [c \in CommitIds |-> None]
    /\ repo_notes = <<>>
    /\ \E fn \in {"apply_horizontal_scroll", "format_side_line"},
          line \in ScrolledContents, offset \in 0..MaxOffset, max_width \in 0..MaxWidth :
          fn_call = Calling(fn, [line |-> line, offset |-> offset, max_width |-> max_width])

\* apply_horizontal_scroll(line, offset, max_width) returns or panics
ApplyHorizontalScrollCall ==
    /\ fn_call # None
    /\ fn_call[1].fn = "apply_horizontal_scroll"
    /\ ~fn_call[1].returned
    /\ LET arg == fn_call[1].arg
           r == ApplyHorizontalScroll(arg.line, arg.offset, arg.max_width)
       IN fn_call' = Some([fn_call[1] EXCEPT !.returned = TRUE,
                                             !.result = [panic |-> r.panic, text |-> r.value]])
    /\ UNCHANGED <<parseVars, sbsVars, appVars, repo_notes>>

\* format_side_line for the right column of an added line returns or panics
FormatSideLineCall ==
    /\ fn_call # None
    /\ fn_call[1].fn = "format_side_line"
    /\ ~fn_call[1].returned
    /\ LET arg == fn_call[1].arg
           hunk_line == [line_type |-> "Added", old_line_num |-> None,
                         new_line_num |-> Some(1), content |-> arg.line]
           r == FormatSideLine(hunk_line, FALSE, arg.max_width, arg.offset)
       IN fn_call' = Some([fn_call[1] EXCEPT
                              !.returned = TRUE,
                              !.result = [panic |-> r.panic,
                                          text |-> IF r.panic THEN <<>> ELSE r.value.text]])
    /\ UNCHANGED <<parseVars, sbsVars, appVars, repo_notes>>

NextScroll == ApplyHorizontalScrollCall \/ FormatSideLineCall

SpecScroll == ScrollInit /\ [][NextScroll]_vars

\* C29: for every content, offset and width (the widths 0 and 1 and the
\* columns not wider than the line-number gutter included)
\* apply_horizontal_scroll and format_side_line complete without an
\* out-of-range slice; the result of apply_horizontal_scroll is never longer
\* than the width, begins with '<' exactly when non-empty content is scrolled
\* past its start, and ends with '>' exactly when content continues past the
\* visible width.
C29_HorizontalScroll ==
    (fn_call # None /\ fn_call[1].returned
        /\ fn_call[1].fn \in {"apply_horizontal_scroll", "format_side_line"}) =>
        LET arg == fn_call[1].arg
            result == fn_call[1].result
            shown == arg.max_width - (IF arg.offset > 0 THEN 1 ELSE 0)
        IN /\ ~result.panic
           /\ fn_call[1].fn = "apply_horizontal_scroll" =>
                 /\ Len(result.text) <= arg.max_width
                 /\ StartsWith(result.text, <<"<">>) <=> (arg.line # <<>> /\ arg.offset > 0)
                 /\ EndsWith(result.text, <<">">>)
                      <=> (arg.line # <<>> /\ Min(arg.offset, Len(arg.line)) + shown < Len(arg.line))

-----------------------------------------------------------------------------
(* ui/hunk_expander.rs: the expand-button rows the renderer asks for.        *)

\* the text of a button: format!("  {arrow} Expand {lines_to_show} more lines {arrow}  ")
ExpandButton(arrow, lines_to_show) ==
    <<" ", " ", arrow, " ", "E", "x", "p", "a", "n", "d", " ">> \o Digits(lines_to_show)
        \o <<" ", "m", "o", "r", "e", " ", "l", "i", "n", "e", "s", " ", arrow, " ", " ">>

\* create_expand_above_line: None when no line is available above the hunk
CreateExpandAboveLine(hunk, increment) ==
    LET available == AvailableLinesAbove(hunk)
    IN IF available = 0 THEN None
       ELSE Some(ExpandButton("up", Min(available, increment)))

\* create_expand_below_line: None only when the file length is known and the
\* hunk reaches it
CreateExpandBelowLine(hunk, increment, file_lines) ==
    IF IsSome(file_lines) /\ ~CanExpandBelow(hunk, Unwrap(file_lines)) THEN None
    ELSE Some(ExpandButton("down", increment))

\* the rows of a hunk as the renderer produces them: header, lines, blank row,
\* and the buttons hunk_expander returns
RenderedHunkRows(file, hunk) ==
    1 + Len(hunk.lines) + 1
      + Len(CreateExpandAboveLine(hunk, default_context_expand_increment))
      + Len(CreateExpandBelowLine(hunk, default_context_expand_increment,
                                  file.new_file_lines))

\* C30: for every file and hunk of the loaded diff, create_expand_below_line
\* returns a row exactly when the row walks count an expand-below row for the
\* hunk (new_file_lines is Some(n) and can_expand_below(n) holds), and
\* create_expand_above_line returns a row exactly when the walks count an
\* expand-above row (available_lines_above() > 0).
C30_ExpandRowsAgree ==
    app_pc = "running" =>
        \A f \in 1..Len(current_files) : \A h \in 1..Len(current_files[f].hunks) :
            LET file == current_files[f]
                hunk == file.hunks[h]
                increment == default_context_expand_increment
            IN /\ IsSome(CreateExpandBelowLine(hunk, increment, file.new_file_lines))
                    <=> (/\ IsSome(file.new_file_lines)
                         /\ hunk.new_start + hunk.new_lines < Unwrap(file.new_file_lines))
               /\ IsSome(CreateExpandAboveLine(hunk, increment))
                    <=> (hunk.old_start > 1 /\ hunk.new_start > 1)
               /\ RenderedHunkRows(file, hunk) = HunkContentLines(file, hunk)

====
